---- MODULE Spec2Model ----
(***************************************************************************)
(* A model of the retrieval-augmented question-answering pipeline of       *)
(* Ai_Intern: the chunker (preprocessing.py), the vector-store adapter     *)
(* and retrieval scorer (retrieval.py) and the answer pipeline             *)
(* (qa_pipeline.py).                                                       *)
(*                                                                         *)
(* Texts are modelled at the granularity the code observes: a text is a    *)
(* sequence of words, each with its length in characters, whether it ends  *)
(* in one of . ! ? and the separator that precedes it (a whitespace run, a *)
(* run of special characters, a whitespace run).  Strings built by the     *)
(* chunker are sequences of word occurrences with the number of blanks in  *)
(* front of each.                                                          *)
(***************************************************************************)
EXTENDS Integers, Sequences, FiniteSets, TLC

VARIABLES
    \* ---- chunk_text (preprocessing.py) ----
    pc,             \* position inside chunk_text
    raw,            \* the argument text
    chunk_size,     \* the argument chunk_size
    chunk_overlap,  \* the argument chunk_overlap
    encoding,       \* module global: "cl100k" (tiktoken) or "none" (len // 4)
    text,           \* the local text after clean_text
    sentences,      \* re.split result
    si,             \* index of the sentence the for loop is at
    chunks,         \* the list of chunks
    current_chunk,  \* list of strings
    current_size,
    words,          \* sentence.split() of the oversized sentence
    wi,             \* index of the word the inner for loop is at
    temp_chunk,
    temp_size,
    overlap_text,   \* the text carried into the new chunk at the last emission
    returned,       \* the list chunk_text returns
    branch,         \* which branch of the loop body ran last
    \* ---- the vector store, retrieval.py and qa_pipeline.py ----
    store,              \* the persisted collection: whether it exists, its records
    collection,         \* retrieval._collection: "None" or "handle"
    vector_db_loaded,   \* RAGPipeline.vector_db_loaded
    api_key,            \* config.USE_OPENAI and config.OPENAI_API_KEY
    op,                 \* the call that ran last, with its arguments
    results,            \* the reply of _collection.query in the last search
    retrieved,          \* the list the last search_similar returned
    answer,             \* the record the last ask returned
    llm_calls,          \* calls of the hosted LLM made by the last ask
    fallback_calls,     \* calls of _fallback_response made by the last ask
    llm_raised,         \* whether the call of the hosted LLM in the last ask raised
    fallback_args,      \* the arguments of the calls of _fallback_response
    raised,             \* whether the last call raised
    http,               \* the last request served by main.py and its response
    setup_args,         \* the arguments of setup_vector_db when the last call ran it
    stages,             \* the steps of the pipeline the last call ran
    built,              \* history: a process_documents of this pipeline has returned
                        \* after setup_vector_db
    \* ---- _fallback_response (qa_pipeline.py), called on its own ----
    fb_pc,              \* "call" before the call, "done" after it
    fb_context,         \* the argument context
    fb_question,        \* the argument question
    fb_response,        \* the returned string
    \* ---- the event loop of main.py ----
    ask_pc,             \* where the handler of POST /ask is
    process_pc,         \* where the handler of POST /process is
    process_force,      \* force_rebuild of the POST /process
    new_batch,          \* the chunks the rebuild stores
    ask_saw,            \* whether the last query ran during a rebuild's window
    \* ---- comprehensive_evaluation (evaluation.py), called on its own ----
    ev_pc,              \* "call" before the call, "done" after it
    ev_query,           \* the argument query
    ev_retrieved,       \* the argument retrieved_texts
    ev_sims,            \* the similarity of each retrieved text to the query
    ev_answer,          \* the argument answer
    ev_result,          \* the returned report
    \* ---- summarize_chunks (ml_components.py), called on its own ----
    sm_pc,              \* "call" before the call, "done" after it
    sm_chunks,          \* the argument chunks
    sm_max_length,      \* the argument max_length
    sm_summary,         \* the returned string
    \* ---- embeddings.py, its functions called on their own ----
    em_model,           \* the module's global _model
    em_loads,           \* how often SentenceTransformer(...) has returned a model
    em_op,              \* the last call and its arguments
    em_out,             \* the model the last call got from load_embedding_model
    em_first,           \* history: the model the first load returned
    em_calls            \* calls made so far

chunkVars == <<pc, raw, chunk_size, chunk_overlap, encoding, text, sentences, si,
               chunks, current_chunk, current_size, words, wi, temp_chunk,
               temp_size, overlap_text, returned, branch>>

pipeVars == <<store, collection, vector_db_loaded, api_key, op, results, retrieved,
              answer, llm_calls, fallback_calls, llm_raised, fallback_args, raised,
              http, setup_args, stages, built>>

fbVars == <<fb_pc, fb_context, fb_question, fb_response>>

\* the variables of the functions examined on their own
srvVars == <<ask_pc, process_pc, process_force, new_batch, ask_saw>>

evVars == <<ev_pc, ev_query, ev_retrieved, ev_sims, ev_answer, ev_result>>

smVars == <<sm_pc, sm_chunks, sm_max_length, sm_summary>>

emVars == <<em_model, em_loads, em_op, em_out, em_first, em_calls>>

auxVars == <<smVars, emVars>>

fnVars == <<fbVars, srvVars, evVars, auxVars>>

vars == <<chunkVars, pipeVars, fnVars>>

-----------------------------------------------------------------------------
(* Bounds of the model                                                     *)

MaxWords == 3

\* word lengths in characters: a 3-letter word and a 20-letter word
WordLens == {3, 20}

\* separators in front of a word: one blank, a run of four whitespace
\* characters, and blank + special character + blank
Seps == { [ws1 |-> 1, spec |-> 0, ws2 |-> 0],
          [ws1 |-> 4, spec |-> 0, ws2 |-> 0],
          [ws1 |-> 1, spec |-> 1, ws2 |-> 1] }

NoSep == [ws1 |-> 0, spec |-> 0, ws2 |-> 0]

ChunkSizes == {2, 5, 12}

ChunkOverlaps == {0, 1, 2}

\* with a negative and a zero chunk_size, a negative chunk_overlap and one
\* above every chunk_size
AnyChunkSizes == ChunkSizes \cup {-1, 0}

AnyChunkOverlaps == ChunkOverlaps \cup {-1, 13}

Encodings == {"cl100k", "none"}

-----------------------------------------------------------------------------
(* Helpers                                                                 *)

Min(a, b) == IF a < b THEN a ELSE b

Max(a, b) == IF a > b THEN a ELSE b

\* the texts chunk_text is applied to: up to MaxWords words, the first
\* without a separator
RawTexts ==
    UNION { { t \in [1..n -> [len : WordLens, end : BOOLEAN, sep : Seps \cup {NoSep}]] :
                \A i \in 1..n : (t[i].sep = NoSep) <=> (i = 1) } : n \in 0..MaxWords }

\* list[-k:] of Python
PyTail(list, k) ==
    LET n == Len(list)
        start == IF k > 0 THEN Max(n - k, 0) ELSE Min(0 - k, n)
    IN  SubSeq(list, start + 1, n)

\* " ".join(list) for a list of strings
RECURSIVE Join(_)
Join(list) ==
    IF list = <<>> THEN <<>>
    ELSE IF Len(list) = 1 THEN list[1]
    ELSE LET init == Join(SubSeq(list, 1, Len(list) - 1))
             last == list[Len(list)]
         IN  init \o <<[last[1] EXCEPT !.g = 1]>> \o Tail(last)

\* len(s)
RECURSIVE StrLen(_)
StrLen(s) == IF s = <<>> THEN 0 ELSE s[1].len + s[1].g + StrLen(Tail(s))

\* number of tokens tiktoken gives a word: one per four characters, rounded up
WordTokens(len) == (len + 3) \div 4

\* len(encoding.encode(s)): a blank merges into the token of the word after
\* it, a wider run of blanks is a token of its own
RECURSIVE BpeTokens(_)
BpeTokens(s) ==
    IF s = <<>> THEN 0
    ELSE WordTokens(s[1].len) + (IF s[1].g >= 2 THEN 1 ELSE 0) + BpeTokens(Tail(s))

-----------------------------------------------------------------------------
(* clean_text                                                              *)

\* what remains of a separator: the whitespace run is collapsed to a blank,
\* then the special characters are removed
CleanGap(sep) ==
    IF sep.spec = 0
    THEN Min(sep.ws1 + sep.ws2, 1)
    ELSE Min(sep.ws1, 1) + Min(sep.ws2, 1)

clean_text(t) ==
    [i \in 1..Len(t) |->
        [len |-> t[i].len, end |-> t[i].end,
         sep |-> [ws1 |-> CleanGap(t[i].sep), spec |-> 0, ws2 |-> 0]]]

\* a text as a string
AsString(t) ==
    [i \in 1..Len(t) |->
        [pos |-> i, len |-> t[i].len,
         g |-> t[i].sep.ws1 + t[i].sep.spec + t[i].sep.ws2]]

-----------------------------------------------------------------------------
(* count_tokens                                                            *)

count_tokens(s) ==
    IF encoding = "cl100k" THEN BpeTokens(s) ELSE StrLen(s) \div 4

\* count_tokens of a text that may hold special characters: each is a token
\* of its own for tiktoken
RECURSIVE SpecialTokens(_)
SpecialTokens(t) ==
    IF t = <<>> THEN 0
    ELSE t[1].sep.spec
         + (IF t[1].sep.ws1 >= 2 THEN 1 ELSE 0)
         + WordTokens(t[1].len) + SpecialTokens(Tail(t))

count_tokens_text(t) ==
    IF encoding = "cl100k" THEN SpecialTokens(t) ELSE StrLen(AsString(t)) \div 4

-----------------------------------------------------------------------------
(* The vector store (ChromaDB, modelled from its documented interface)     *)

MaxDocs == 2

\* config.py
TOP_K == 3

\* config.SIMILARITY_THRESHOLD, 0.5, in hundredths
SIMILARITY_THRESHOLD == 50

\* chunk and question texts
Texts == 0..3

\* the values of top_k a caller passes; 0 stands for None
TopKs == {0, 1, 2, 4}

\* the embedding model: texts 0 and 3 get the same vector
Embed(t) == t % 3

\* cosine distance between two vectors, in hundredths: 0, 0.5 and 0.51
Distance(q, e) ==
    LET d == IF q >= e THEN q - e ELSE e - q
    IN  CASE d = 0 -> 0
          [] d = 1 -> 50
          [] OTHER -> 51

\* the records a call of setup_vector_db stores
RecordsOf(texts) ==
    [i \in 1..Len(texts) |-> [id |-> i - 1, text |-> texts[i], emb |-> Embed(texts[i])]]

TextLists == UNION { [1..n -> Texts] : n \in 0..MaxDocs }

\* a batch of five chunks, four of them with the vector of text 0
LargeBatch == <<0, 3, 0, 3, 1>>

\* the batches of chunks a run of process_documents stores
Batches == TextLists \cup {LargeBatch}

\* the records of the store ordered by distance to q, nearest first, records at
\* the same distance in the order they were added
RECURSIVE Nearest(_, _)
Nearest(recs, q) ==
    IF recs = <<>> THEN <<>>
    ELSE LET i == CHOOSE i \in 1..Len(recs) :
                     \A j \in 1..Len(recs) :
                        \/ Distance(q, recs[i].emb) < Distance(q, recs[j].emb)
                        \/ (Distance(q, recs[i].emb) = Distance(q, recs[j].emb) /\ i <= j)
             rest == [j \in 1..(Len(recs) - 1) |-> IF j < i THEN recs[j] ELSE recs[j + 1]]
         IN  <<recs[i]>> \o Nearest(rest, q)

\* the first k records in the order they were added
Query_AsAdded(recs, q, k) ==
    LET hits == SubSeq(recs, 1, Min(k, Len(recs)))
    IN  [documents |-> [i \in 1..Len(hits) |-> hits[i].text],
         distances |-> [i \in 1..Len(hits) |-> Distance(q, hits[i].emb)]]

\* _collection.query(query_embeddings=[q], n_results=k)
Query(recs, q, k) ==
    LET hits == SubSeq(Nearest(recs, q), 1, Min(k, Len(recs)))
    IN  [documents |-> [i \in 1..Len(hits) |-> hits[i].text],
         distances |-> [i \in 1..Len(hits) |-> Distance(q, hits[i].emb)]]

NoResults == [documents |-> <<>>, distances |-> <<>>]

-----------------------------------------------------------------------------
(* retrieval.py                                                            *)

\* _client.delete_collection(name) inside try / except: pass
delete_collection(st) == [exists |-> FALSE, records |-> <<>>]

\* _client.create_collection(name): raises when the collection exists
create_collection(st) ==
    IF st.exists
    THEN [raised |-> TRUE, store |-> st]
    ELSE [raised |-> FALSE, store |-> [exists |-> TRUE, records |-> <<>>]]

\* the identifiers counted from 1
DocIds_FromOne(texts) == [i \in 1..Len(texts) |-> i]

\* line 63: ids = [f"doc_{i}" for i in range(len(texts))]
DocIds(texts) == [i \in 1..Len(texts) |-> i - 1]

\* _collection.add(embeddings, documents, ids): an empty batch and lists of
\* different lengths are rejected
add(st, embeddings, documents, ids) ==
    IF ids = <<>> \/ Len(embeddings) # Len(ids) \/ Len(documents) # Len(ids)
    THEN [raised |-> TRUE, store |-> st]
    ELSE [raised |-> FALSE,
          store |-> [exists |-> TRUE,
                     records |-> st.records \o
                         [i \in 1..Len(ids) |->
                             [id |-> ids[i], text |-> documents[i],
                              emb |-> embeddings[i]]]]]

\* the batch added to the collection that is there
setup_vector_db_Append(st, embeddings, texts) ==
    LET created == IF st.exists THEN st ELSE create_collection(st).store
        added == add(created, embeddings, texts,
                     [i \in 1..Len(texts) |-> Len(created.records) + i - 1])
    IN  [raised |-> added.raised, store |-> added.store, collection |-> "handle"]

\* setup_vector_db, lines 45-74: the store afterwards, whether the call
\* raised, and _collection
setup_vector_db(st, embeddings, texts) ==
    LET created == create_collection(delete_collection(st))
        added == add(created.store, embeddings, texts, DocIds(texts))
    IN  IF created.raised
        THEN [raised |-> TRUE, store |-> created.store, collection |-> "None"]
        ELSE [raised |-> added.raised, store |-> added.store, collection |-> "handle"]

\* create_embeddings(texts): one vector a text
create_embeddings(texts) == [i \in 1..Len(texts) |-> Embed(texts[i])]

\* no call of setup_vector_db
NoSetup == [called |-> FALSE, embeddings |-> <<>>, texts |-> <<>>]

\* load_vector_db: the handle of the collection, or None when get_collection
\* raises
load_vector_db(st) == IF st.exists THEN "handle" ELSE "None"

\* line 126 of retrieval.py and line 172 of qa_pipeline.py
TopKOrDefault(k) == IF k = 0 THEN TOP_K ELSE k

\* the distance taken for the similarity
Similarity_Raw(dist) == dist

\* line 142: 1 - dist
Similarity(dist) == 100 - dist

\* the filter left out
PassesThreshold_Always(sim) == TRUE

\* line 145: the threshold filter
PassesThreshold(sim) == sim >= SIMILARITY_THRESHOLD

\* lines 141-145
Scored(reply) ==
    LET similarities == [i \in 1..Len(reply.documents) |->
                            <<reply.documents[i], Similarity(reply.distances[i])>>]
    IN  SelectSeq(similarities, LAMBDA pair : PassesThreshold(pair[2]))

\* the missing collection reported as an error
NoCollection_Raises == [raised |-> TRUE, value |-> <<>>]

\* lines 119-124: what search_similar does when no collection can be loaded
NoCollection == [raised |-> FALSE, value |-> <<>>]

\* search_similar: the new _collection, the reply of the store and the
\* returned list
search_similar(coll, st, q, k) ==
    LET loaded == IF coll = "None" THEN load_vector_db(st) ELSE coll
    IN  IF loaded = "None"
        THEN [collection |-> loaded, results |-> NoResults,
              raised |-> NoCollection.raised, value |-> NoCollection.value]
        ELSE LET reply == Query(st.records, q, TopKOrDefault(k))
             IN  [collection |-> loaded, results |-> reply,
                  raised |-> FALSE, value |-> Scored(reply)]

-----------------------------------------------------------------------------
(* qa_pipeline.py                                                          *)

NoAnswer == [answer |-> "", sources |-> <<>>, confidence |-> [sum |-> 0, n |-> 1],
             num_sources |-> 0]

\* lines 165-170
NotInitialized ==
    [answer |-> "Error: Vector database not initialized.", sources |-> <<>>,
     confidence |-> [sum |-> 0, n |-> 1], num_sources |-> 0]

\* lines 183-188
NoMatch ==
    [answer |-> "I couldn't find relevant information to answer your question.",
     sources |-> <<>>, confidence |-> [sum |-> 0, n |-> 1], num_sources |-> 0]

\* the empty retrieval not tested
NothingRetrieved_Never(found) == FALSE

\* line 182: if not retrieved
NothingRetrieved(found) == found = <<>>

\* every retrieved text returned as a source
TopSources_All(sources) == sources

\* line 208: sources[:3]
TopSources(sources) == SubSeq(sources, 1, Min(3, Len(sources)))

RECURSIVE SumScores(_)
SumScores(found) == IF found = <<>> THEN 0 ELSE found[1][2] + SumScores(Tail(found))

\* the mean taken over the scores of the returned sources only
avg_confidence_OfSources(found) ==
    [sum |-> SumScores(SubSeq(found, 1, Min(3, Len(found)))), n |-> Min(3, Len(found))]

\* line 204: sum(score for _, score in retrieved) / len(retrieved), kept as
\* the sum and the count
avg_confidence(found) == [sum |-> SumScores(found), n |-> Len(found)]

\* lines 191-192 of ask: the texts of all retrieved pairs, joined to the context
ContextOf(found) == [i \in 1..Len(found) |-> found[i][1]]

\* the call of the hosted LLM made again after it raised
get_llm_response_Retry(context, question, key, llm_ok) ==
    IF key
    THEN IF llm_ok
         THEN [answer |-> "completion of the hosted LLM", llm |-> 1, fallback |-> 0,
               llm_raised |-> FALSE, args |-> <<>>]
         ELSE [answer |-> "completion of the hosted LLM", llm |-> 2, fallback |-> 0,
               llm_raised |-> TRUE, args |-> <<>>]
    ELSE [answer |-> "answer of _fallback_response", llm |-> 0, fallback |-> 1,
          llm_raised |-> FALSE,
          args |-> <<[context |-> context, question |-> question]>>]

\* _get_llm_response: who wrote the answer, how often each answerer ran and
\* what _fallback_response was called with; llm_ok says whether the call of
\* client.chat.completions.create, if one is made, returns
get_llm_response(context, question, key, llm_ok) ==
    IF key
    THEN IF llm_ok
         THEN [answer |-> "completion of the hosted LLM", llm |-> 1, fallback |-> 0,
               llm_raised |-> FALSE, args |-> <<>>]
         ELSE [answer |-> "answer of _fallback_response", llm |-> 1, fallback |-> 1,
               llm_raised |-> TRUE,
               args |-> <<[context |-> context, question |-> question]>>]
    ELSE [answer |-> "answer of _fallback_response", llm |-> 0, fallback |-> 1,
          llm_raised |-> FALSE,
          args |-> <<[context |-> context, question |-> question]>>]

\* data_ingestion.py: a PDF file is unreadable (PdfReader raises), has pages
\* with no text, or has pages with text
Pdfs == {"unreadable", "blank pages", "pages"}

\* extract_text_from_pdf, lines 25-37: the page texts each followed by "\n",
\* or "" when reading raised
extract_text_from_pdf(pdf) ==
    CASE pdf = "unreadable" -> ""
      [] pdf = "blank pages" -> "\n"
      [] pdf = "pages" -> "text\n"

\* text.strip() of line 66
StripOfExtract(extract) == IF extract \in {"", "\n"} THEN "" ELSE "text"

\* the data directory: whether it exists and the PDF files in it
DataDirs ==
    {[exists |-> FALSE, pdfs |-> <<>>]}
        \cup {[exists |-> TRUE, pdfs |-> files] :
                files \in {<<>>, <<"unreadable">>, <<"blank pages">>,
                           <<"blank pages", "pages">>}}

NonBlankExtract(extract) == StripOfExtract(extract) # ""

\* ingest_pdfs, lines 50-70
ingest_pdfs(dir) ==
    IF ~dir.exists
    THEN <<>>
    ELSE IF dir.pdfs = <<>>
         THEN <<>>
         ELSE SelectSeq([i \in 1..Len(dir.pdfs) |-> extract_text_from_pdf(dir.pdfs[i])],
                        NonBlankExtract)

\* preprocess_text, lines 157-165: the chunk lists the documents can yield; no
\* document gives no chunk, and documents may give none when every chunk of
\* theirs is dropped as small
ChunksOf(documents) == IF documents = <<>> THEN {<<>>} ELSE Batches

\* the rebuild never skipped
SkipsRebuild_Never(loaded, force) == FALSE

\* line 45: if self.vector_db_loaded and not force_rebuild
SkipsRebuild(loaded, force) == loaded /\ ~force

\* the empty ingestion not tested
NoTexts_Never(documents) == FALSE

\* line 56: if not texts
NoTexts(documents) == documents = <<>>

\* the flag left as it was
FlagAfterSetup_Kept(loaded) == loaded

\* line 77: self.vector_db_loaded = True
FlagAfterSetup(loaded) == TRUE

\* process_documents, lines 45-79: dir is the data directory and pieces the
\* chunks preprocess_text makes of its documents; an exception of
\* setup_vector_db leaves the method before line 77
process_documents(loaded, st, coll, force, dir, pieces) ==
    IF SkipsRebuild(loaded, force)
    THEN [store |-> st, collection |-> coll, loaded |-> loaded, raised |-> FALSE,
          setup_args |-> NoSetup, stages |-> {}]
    ELSE IF NoTexts(ingest_pdfs(dir))
         THEN [store |-> st, collection |-> coll, loaded |-> loaded,
               raised |-> FALSE, setup_args |-> NoSetup,
               stages |-> {"ingest_pdfs"}]
         ELSE LET embeddings == create_embeddings(pieces)
                  done == setup_vector_db(st, embeddings, pieces)
              IN  [store |-> done.store, collection |-> done.collection,
                   loaded |-> IF done.raised THEN loaded ELSE FlagAfterSetup(loaded),
                   raised |-> done.raised,
                   setup_args |-> [called |-> TRUE, embeddings |-> embeddings,
                                   texts |-> pieces],
                   stages |-> {"ingest_pdfs", "preprocess_text", "create_embeddings",
                               "setup_vector_db"}]

\* ask
ask(loaded, coll, st, question, k, key, llm_ok) ==
    IF ~loaded
    THEN [collection |-> coll, results |-> NoResults, retrieved |-> <<>>,
          record |-> NotInitialized, llm |-> 0, fallback |-> 0,
          llm_raised |-> FALSE, args |-> <<>>, stages |-> {}]
    ELSE LET found == search_similar(coll, st, Embed(question), TopKOrDefault(k))
         IN  IF NothingRetrieved(found.value)
             THEN [collection |-> found.collection, results |-> found.results,
                   retrieved |-> found.value, record |-> NoMatch,
                   llm |-> 0, fallback |-> 0, llm_raised |-> FALSE, args |-> <<>>,
                   stages |-> {"create_query_embedding", "search_similar"}]
             ELSE LET sources == ContextOf(found.value)
                      reply == get_llm_response(sources, question, key, llm_ok)
                  IN  [collection |-> found.collection, results |-> found.results,
                       retrieved |-> found.value,
                       record |-> [answer |-> reply.answer,
                                   sources |-> TopSources(sources),
                                   confidence |-> avg_confidence(found.value),
                                   num_sources |-> Len(found.value)],
                       llm |-> reply.llm, fallback |-> reply.fallback,
                       llm_raised |-> reply.llm_raised, args |-> reply.args,
                       stages |-> {"create_query_embedding", "search_similar",
                                   "_get_llm_response"}]

-----------------------------------------------------------------------------
(* Strings of _fallback_response and of evaluation.py                      *)
(*                                                                         *)
(* A string is a sequence of atoms: a word of the vocabulary, a '.', a     *)
(* blank, or a literal piece of text the code writes.  A word has its      *)
(* number of characters and its case; s[:n] may cut a word.                *)

MaxAtoms == 6

Word(id, len, up) == [k |-> "w", id |-> id, len |-> len, up |-> up]

Dot == [k |-> ".", id |-> 0, len |-> 1, up |-> FALSE]

Blank == [k |-> " ", id |-> 0, len |-> 1, up |-> FALSE]

Lit(str, len) == [k |-> str, id |-> 0, len |-> len, up |-> FALSE]

\* the vocabulary: word 1 has four letters ("data"), word 2 has eight and
\* begins with word 1 ("database"), word 3 has three ("the"), word 4 is a
\* run of 198 letters
Data == Word(1, 4, FALSE)

DATA == Word(1, 4, TRUE)

DATABASE == Word(2, 8, TRUE)

The == Word(3, 3, FALSE)

Filler == Word(4, 198, FALSE)

ContextAtoms == {Data, DATABASE, The, Filler, Dot, Blank}

\* strings of up to n atoms of A in which no two words are adjacent
StringsOver(A, n) ==
    UNION { { s \in [1..m -> A] :
                \A i \in 1..(m - 1) : ~(s[i].k = "w" /\ s[i + 1].k = "w") } : m \in 0..n }

Contexts == StringsOver(ContextAtoms, MaxAtoms)

\* "data", "DATA", "the", "the.", "the  data", "" and "database"
Questions == { <<Data>>, <<DATA>>, <<The>>, <<The, Dot>>, <<The, Blank, Blank, Data>>,
               <<>>, <<Word(2, 8, FALSE)>> }

\* len(s)
RECURSIVE CharLen(_)
CharLen(s) == IF s = <<>> THEN 0 ELSE s[1].len + CharLen(Tail(s))

\* s.lower()
Lower(s) == [i \in 1..Len(s) |-> [s[i] EXCEPT !.up = FALSE]]

\* s[:n]
RECURSIVE Prefix(_, _)
Prefix(s, n) ==
    IF s = <<>> \/ n <= 0 THEN <<>>
    ELSE IF s[1].len <= n THEN <<s[1]>> \o Prefix(Tail(s), n - s[1].len)
    ELSE <<[s[1] EXCEPT !.len = n]>>

\* s.split(sep): the pieces between the occurrences of sep, empty ones kept
RECURSIVE SplitOn(_, _)
SplitOn(s, sep) ==
    IF \A i \in 1..Len(s) : s[i] # sep THEN <<s>>
    ELSE LET i == CHOOSE i \in 1..Len(s) :
                     s[i] = sep /\ \A j \in 1..(i - 1) : s[j] # sep
         IN  <<SubSeq(s, 1, i - 1)>> \o SplitOn(SubSeq(s, i + 1, Len(s)), sep)

\* s.split(): the pieces between runs of whitespace, from the first to the
\* last
SplitWhitespace(s) ==
    LET starts == {i \in 1..Len(s) : s[i] # Blank /\ (i = 1 \/ s[i - 1] = Blank)}
        ends == {i \in 1..Len(s) : s[i] # Blank /\ (i = Len(s) \/ s[i + 1] = Blank)}
        nth(S, k) == CHOOSE i \in S : Cardinality({j \in S : j < i}) = k - 1
    IN  [k \in 1..Cardinality(starts) |-> SubSeq(s, nth(starts, k), nth(ends, k))]

RECURSIVE LStrip(_)
LStrip(s) == IF s # <<>> /\ s[1] = Blank THEN LStrip(Tail(s)) ELSE s

RECURSIVE RStrip(_)
RStrip(s) ==
    IF s # <<>> /\ s[Len(s)] = Blank THEN RStrip(SubSeq(s, 1, Len(s) - 1)) ELSE s

\* s.strip()
Strip(s) == RStrip(LStrip(s))

\* atom a begins with atom b: a whole word begins with itself, and word 2
\* with word 1 in the same case
StartsWith(a, b) ==
    \/ a = b
    \/ /\ a.k = "w" /\ b.k = "w" /\ a.up = b.up
       /\ a = Word(2, 8, a.up) /\ b = Word(1, 4, b.up)

\* sub in s, for a string sub without blanks: sub lies in s at some offset,
\* its first atom ending an atom of s and its last atom beginning one
In(sub, s) ==
    \/ sub = <<>>
    \/ \E o \in 0..(Len(s) - Len(sub)) :
          /\ \A j \in 1..(Len(sub) - 1) : s[o + j] = sub[j]
          /\ StartsWith(s[o + Len(sub)], sub[Len(sub)])

\* sep.join(list)
RECURSIVE JoinWith(_, _)
JoinWith(list, sep) ==
    IF list = <<>> THEN <<>>
    ELSE IF Len(list) = 1 THEN list[1]
    ELSE list[1] \o sep \o JoinWith(Tail(list), sep)

-----------------------------------------------------------------------------
(* _fallback_response                                                      *)

\* line 142: the words of the lower-cased question of more than 3 characters
question_words(question) ==
    SelectSeq(SplitWhitespace(Lower(question)), LAMBDA w : CharLen(w) > 3)

\* line 143: any(word in sentence_lower for word in question_words)
IsRelevant(sentence, question) ==
    LET qws == question_words(question)
    IN  \E i \in 1..Len(qws) : In(qws[i], Lower(sentence))

\* line 144: what is appended for a relevant sentence
Appended(sentence) == Strip(sentence)

\* lines 136-144: the loop over context.split('.')
relevant_sentences(context, question) ==
    LET matching == SelectSeq(SplitOn(context, Dot),
                              LAMBDA sentence : IsRelevant(sentence, question))
    IN  [i \in 1..Len(matching) |-> Appended(matching[i])]

\* every relevant sentence taken
FirstTwo_All(list) == list

\* line 147: relevant_sentences[:2]
FirstTwo(list) == SubSeq(list, 1, Min(2, Len(list)))

BasedOn == Lit("Based on the provided context: ", 31)

Ellipsis == Lit("...", 3)

\* the context not cut
TruncatedForm_Whole(context) == <<BasedOn>> \o context \o <<Ellipsis>>

\* line 149: f"Based on the provided context: {context[:200]}..."
TruncatedForm(context) == <<BasedOn>> \o Prefix(context, 200) \o <<Ellipsis>>

\* lines 146-149
fallback_response(context, question) ==
    LET relevant == relevant_sentences(context, question)
    IN  IF relevant # <<>>
        THEN JoinWith(FirstTwo(relevant), <<Dot, Blank>>) \o <<Dot>>
        ELSE TruncatedForm(context)

\* no call of _fallback_response on its own is examined
FbIdle ==
    /\ fb_pc = "idle"
    /\ fb_context = <<>>
    /\ fb_question = <<>>
    /\ fb_response = <<>>

-----------------------------------------------------------------------------
(* evaluation.py                                                           *)
(*                                                                         *)
(* Scores are exact fractions; the embedding model is represented by the   *)
(* cosine similarities it gives, in hundredths, 1.0 for a text equal to    *)
(* the query.                                                              *)

MaxRetrieved == 2

RECURSIVE GCD(_, _)
GCD(a, b) == IF b = 0 THEN a ELSE GCD(b, a % b)

\* the fraction n / d in lowest terms, d > 0
Rat(n, d) == IF n = 0 THEN [num |-> 0, den |-> 1]
             ELSE [num |-> n \div GCD(n, d), den |-> d \div GCD(n, d)]

RAdd(a, b) == Rat(a.num * b.den + b.num * a.den, a.den * b.den)

RMul(a, b) == Rat(a.num * b.num, a.den * b.den)

RGeq(a, b) == a.num * b.den >= b.num * a.den

\* n times the word w, blanks between
Repeat(w, n) == [i \in 1..(2 * n - 1) |-> IF i % 2 = 1 THEN w ELSE Blank]

\* "", "the", "data", "DATABASE", "the data", "data data", "data." and ten
\* times "data"
EvalQueries == { <<>>, <<The>>, <<Data>>, <<DATABASE>>, <<The, Blank, Data>>,
                 <<Data, Blank, Data>>, <<Data, Dot>>, Repeat(Data, 10) }

\* the retrieved chunks: "the", "data", "DATABASE" and "database. the"
EvalTexts == { <<The>>, <<Data>>, <<DATABASE>>, <<Word(2, 8, FALSE), Dot, Blank, The>> }

\* the answers: the queries, and "the" 9, 200 and 201 times
EvalAnswers == EvalQueries \cup {Repeat(The, 9), Repeat(The, 200), Repeat(The, 201)}

\* cosine similarities of a chunk to the query, in hundredths
Cosines == {40, 100}

RECURSIVE SumOf(_)
SumOf(list) == IF list = <<>> THEN 0 ELSE list[1] + SumOf(Tail(list))

\* calculate_relevance_score, lines 26-41: the mean of the similarities
calculate_relevance_score(sims) ==
    IF sims = <<>> THEN Rat(0, 1) ELSE Rat(SumOf(sims), 100 * Len(sims))

\* set(word.lower() for word in s.split() if len(word) > n)
Keywords(s, n) ==
    LET ws == SplitWhitespace(s)
    IN  {Lower(ws[i]) : i \in {j \in 1..Len(ws) : CharLen(ws[j]) > n}}

\* the fraction of the keywords that occur in the lower-cased text, 0.0 when
\* there is no keyword (lines 62-63 and 98-99)
FractionIn(keywords, lowered) ==
    IF keywords # {}
    THEN Rat(Cardinality({k \in keywords : In(k, lowered)}), Cardinality(keywords))
    ELSE Rat(0, 1)

\* evaluate_retrieval, lines 56-63
evaluate_retrieval(query, retrieved_texts, sims) ==
    [relevance_score |-> calculate_relevance_score(sims),
     coverage |-> FractionIn(Keywords(query, 3),
                             Lower(JoinWith(retrieved_texts, <<Blank>>)))]

\* len(s.split()): the places where a piece begins
WordCount(s) ==
    Cardinality({i \in 1..Len(s) : s[i] # Blank /\ (i = 1 \/ s[i - 1] = Blank)})

\* the bounds taken exclusive
length_score_Exclusive(answer_length) ==
    IF 10 < answer_length /\ answer_length < 200 THEN Rat(1, 1) ELSE Rat(1, 2)

\* line 103
length_score(answer_length) ==
    IF 10 <= answer_length /\ answer_length <= 200 THEN Rat(1, 1) ELSE Rat(1, 2)

\* evaluate_answer_quality, lines 95-103
evaluate_answer_quality(answer_text, query, context) ==
    [context_usage |-> FractionIn(Keywords(context, 4), Lower(answer_text)),
     length_score |-> length_score(WordCount(answer_text))]

\* comprehensive_evaluation, lines 127-147
comprehensive_evaluation(query, retrieved_texts, sims, answer_text) ==
    LET context == JoinWith(retrieved_texts, <<Blank, Blank>>)
        retrieval_eval == evaluate_retrieval(query, retrieved_texts, sims)
        answer_eval == evaluate_answer_quality(answer_text, query, context)
        overall_score ==
            RAdd(RAdd(RAdd(RMul(retrieval_eval.relevance_score, Rat(5, 10)),
                           RMul(retrieval_eval.coverage, Rat(2, 10))),
                      RMul(answer_eval.context_usage, Rat(2, 10))),
                 RMul(answer_eval.length_score, Rat(1, 10)))
    IN  [retrieval_evaluation |-> retrieval_eval,
         answer_evaluation |-> answer_eval,
         overall_score |-> overall_score,
         recommendation |-> IF RGeq(overall_score, Rat(7, 10))
                            THEN "Good" ELSE "Needs improvement"]

NoEvaluation ==
    [retrieval_evaluation |-> [relevance_score |-> Rat(0, 1), coverage |-> Rat(0, 1)],
     answer_evaluation |-> [context_usage |-> Rat(0, 1), length_score |-> Rat(1, 2)],
     overall_score |-> Rat(0, 1),
     recommendation |-> ""]

\* no evaluation is examined
EvIdle ==
    /\ ev_pc = "idle"
    /\ ev_query = <<>>
    /\ ev_retrieved = <<>>
    /\ ev_sims = <<>>
    /\ ev_answer = <<>>
    /\ ev_result = NoEvaluation

-----------------------------------------------------------------------------
(* ml_components.py: summarize_chunks                                      *)

MaxChunks == 2

\* the default of max_length, line 13
DefaultMaxLength == 150

MaxLengths == {0, 21, DefaultMaxLength, 200}

\* sentences of 20, 21, 75 and 150 characters
S20 == Word(5, 20, FALSE)

S21 == Word(6, 21, FALSE)

S75 == Word(7, 75, FALSE)

S150 == Word(8, 150, FALSE)

\* the chunks summarize_chunks is applied to: "", a short sentence, one that
\* is just long enough, two sentences, sentences with blanks around them, a
\* sentence of max_length characters with and without its full stop, and
\* three sentences of which the second is short
SummaryChunks ==
    { <<>>, <<S20>>, <<S21>>, <<S21, Dot, Blank, S75>>,
      <<Blank, S75, Blank, Dot, S75>>, <<S150>>, <<S150, Dot>>,
      <<S75, Dot, Blank, S20, Dot, Blank, S21>> }

SummaryInputs == UNION { [1..n -> SummaryChunks] : n \in 0..MaxChunks }

\* line 35: if sentence and len(sentence) > 20
LongEnough(sentence) == sentence # <<>> /\ CharLen(sentence) > 20

\* lines 33-40: the loop over the sentences of one chunk; got is
\* summary_sentences, total is total_length; the first sentence that does not
\* fit ends the loop
RECURSIVE SentenceLoop(_, _, _, _)
SentenceLoop(list, got, total, max_length) ==
    IF list = <<>> THEN [got |-> got, total |-> total]
    ELSE LET sentence == Strip(list[1])
         IN  IF ~LongEnough(sentence)
             THEN SentenceLoop(Tail(list), got, total, max_length)
             ELSE IF total + CharLen(sentence) <= max_length
                  THEN SentenceLoop(Tail(list), Append(got, sentence),
                                    total + CharLen(sentence), max_length)
                  ELSE [got |-> got, total |-> total]

\* lines 31-42: the loop over the chunks, left once total_length has reached
\* max_length
RECURSIVE ChunkLoop(_, _, _, _)
ChunkLoop(list, got, total, max_length) ==
    IF list = <<>> THEN [got |-> got, total |-> total]
    ELSE LET after == SentenceLoop(SplitOn(list[1], Dot), got, total, max_length)
         IN  IF after.total >= max_length
             THEN after
             ELSE ChunkLoop(Tail(list), after.got, after.total, max_length)

\* summary.endswith('.')
EndsWithDot(s) == s # <<>> /\ s[Len(s)] = Dot

\* lines 44-46
Summary(got) ==
    LET summary == JoinWith(got, <<Dot, Blank>>)
    IN  IF summary # <<>> /\ ~EndsWithDot(summary)
        THEN summary \o <<Dot>>
        ELSE summary

\* summarize_chunks, lines 24-50
summarize_chunks(list, max_length) ==
    IF list = <<>> THEN <<>>
    ELSE Summary(ChunkLoop(list, <<>>, 0, max_length).got)

\* no call of summarize_chunks on its own is examined
SmIdle ==
    /\ sm_pc = "idle"
    /\ sm_chunks = <<>>
    /\ sm_max_length = 0
    /\ sm_summary = <<>>

-----------------------------------------------------------------------------
(* embeddings.py                                                           *)

MaxCalls == 3

\* config.EMBEDDING_MODEL
EMBEDDING_MODEL == "sentence-transformers/all-MiniLM-L6-v2"

\* the values of model_name a caller passes: None, "", the configured name
\* and another one
ModelNames == {"None", "", EMBEDDING_MODEL, "another-model"}

\* _model = None, line 15
NoModel == [name |-> "None", serial |-> 0]

\* line 31: model_name or config.EMBEDDING_MODEL
NameOrDefault(model_name) ==
    IF model_name \in {"None", ""} THEN EMBEDDING_MODEL ELSE model_name

\* a model loaded again when another name is asked for
NeedsLoad_OnOtherName(model, model_name) ==
    model = NoModel \/ model.name # NameOrDefault(model_name)

\* line 30: if _model is None
NeedsLoad(model, model_name) == model = NoModel

\* load_embedding_model, lines 28-36: model is the global _model, loads the
\* number of models constructed so far, ok whether SentenceTransformer(...)
\* returns; the object it returns is told apart by its serial number
load_embedding_model(model, loads, model_name, ok) ==
    IF NeedsLoad(model, model_name)
    THEN IF ok
         THEN LET made == [name |-> NameOrDefault(model_name), serial |-> loads + 1]
              IN  [model |-> made, loads |-> loads + 1, returned |-> made,
                   raised |-> FALSE]
         ELSE [model |-> model, loads |-> loads, returned |-> NoModel,
               raised |-> TRUE]
    ELSE [model |-> model, loads |-> loads, returned |-> model, raised |-> FALSE]

\* create_embeddings, lines 50-54: no model is asked for when texts is empty
create_embeddings_model(model, loads, no_texts, model_name, ok) ==
    IF no_texts
    THEN [model |-> model, loads |-> loads, returned |-> NoModel, raised |-> FALSE]
    ELSE load_embedding_model(model, loads, model_name, ok)

\* create_query_embedding, line 92
create_query_embedding_model(model, loads, model_name, ok) ==
    load_embedding_model(model, loads, model_name, ok)

NoCall == [name |-> "none", model_name |-> "None", no_texts |-> FALSE, raised |-> FALSE]

\* no function of embeddings.py on its own is examined
EmIdle ==
    /\ em_model = NoModel
    /\ em_loads = 0
    /\ em_op = NoCall
    /\ em_out = NoModel
    /\ em_first = NoModel
    /\ em_calls = 0

AuxIdle == SmIdle /\ EmIdle

-----------------------------------------------------------------------------
(* Idle states                                                             *)

\* no request is served
SrvIdle ==
    /\ ask_pc = "idle"
    /\ process_pc = "idle"
    /\ process_force = FALSE
    /\ new_batch = <<>>
    /\ ask_saw = "nothing"

FnIdle == FbIdle /\ SrvIdle /\ EvIdle /\ AuxIdle

-----------------------------------------------------------------------------
(* main.py                                                                 *)

\* no request served
NoRequest == [route |-> "", blank |-> FALSE, asked |-> FALSE, status |-> 0, detail |-> ""]

\* line 83: raise HTTPException(status_code=400, detail="Question cannot be empty")
EmptyQuestion ==
    [class |-> "HTTPException", status |-> 400, detail |-> "Question cannot be empty"]

\* the classes that except Exception catches: HTTPException derives from
\* Exception
ExceptionClasses == {"Exception", "HTTPException", "ValueError"}

\* lines 111-113: what the client receives for an exception raised inside the
\* try block of ask_question
AskQuestionError(e) ==
    IF e.class \in ExceptionClasses
    THEN [status |-> 500, detail |-> "Internal server error: ..."]
    ELSE [status |-> e.status, detail |-> e.detail]

NoOp == [name |-> "init", question |-> 0, top_k |-> 0, force_rebuild |-> FALSE]

\* the pipeline while chunk_text is examined on its own
PipeIdle ==
    /\ store = [exists |-> FALSE, records |-> <<>>]
    /\ collection = "None"
    /\ vector_db_loaded = FALSE
    /\ api_key = FALSE
    /\ op = NoOp
    /\ results = NoResults
    /\ retrieved = <<>>
    /\ answer = NoAnswer
    /\ llm_calls = 0
    /\ fallback_calls = 0
    /\ llm_raised = FALSE
    /\ fallback_args = <<>>
    /\ raised = FALSE
    /\ http = NoRequest
    /\ setup_args = NoSetup
    /\ stages = {}
    /\ built = FALSE

-----------------------------------------------------------------------------
(* chunk_text                                                              *)

\* re.split(r'(?<=[.!?])\s+', text): a new sentence starts after a word that
\* ends in . ! or ?; the blanks inside a sentence stay as they are
RECURSIVE SplitSentences(_, _)
SplitSentences(t, n) ==
    IF n = 0 THEN <<>>
    ELSE LET before == SplitSentences(t, n - 1)
         IN  IF n = 1 \/ t[n - 1].end
             THEN Append(before, <<[pos |-> n, len |-> t[n].len, g |-> 0]>>)
             ELSE [before EXCEPT ![Len(before)] =
                      Append(@, [pos |-> n, len |-> t[n].len, g |-> t[n].sep.ws1])]

\* sentence.split()
SplitWords(s) == [i \in 1..Len(s) |-> <<[s[i] EXCEPT !.g = 0]>>]

\* the overlap taken in words, not in list elements
OverlapOf_Words(list, overlap) ==
    LET ws == SplitWords(Join(list))
    IN  IF Len(ws) > overlap THEN PyTail(ws, overlap) ELSE list

\* current_chunk[-chunk_overlap:] if len(current_chunk) > chunk_overlap
\* else current_chunk
OverlapOf(list, overlap) ==
    IF Len(list) > overlap THEN PyTail(list, overlap) ELSE list

\* the word looked at again
NextWord_Same(i) == i

\* line 105, for word in words: the loop goes on to the next word
NextWord(i) == i + 1

\* the test that sends a sentence to the word loop
TooLarge(sentence_tokens, size) == sentence_tokens > size

\* the test that emits the running chunk
Exceeds(size_so_far, tokens, size) == size_so_far + tokens > size

\* the filter off by one
KeepChunk_AtLeastTen(chunk) == count_tokens(chunk) >= 10

\* the filter of the last step
KeepChunk(chunk) == count_tokens(chunk) > 10

\* the filter left out
FilterChunks_None(cs) == cs

FilterChunks(cs) == SelectSeq(cs, KeepChunk)

\* the locals of chunk_text before its first statement
ChunkLocals ==
    /\ text = <<>>
    /\ sentences = <<>>
    /\ si = 1
    /\ chunks = <<>>
    /\ current_chunk = <<>>
    /\ current_size = 0
    /\ words = <<>>
    /\ wi = 1
    /\ temp_chunk = <<>>
    /\ temp_size = 0
    /\ overlap_text = <<>>
    /\ returned = <<>>
    /\ branch = "none"

\* no call of chunk_text is under way
ChunkIdle ==
    /\ pc = "idle"
    /\ raw = <<>>
    /\ chunk_size = 500
    /\ chunk_overlap = 50
    /\ encoding = "none"
    /\ ChunkLocals

\* a call of chunk_text with arguments from the bounded sets
ChunkInit ==
    /\ pc = "start"
    /\ raw \in RawTexts
    /\ chunk_size \in ChunkSizes
    /\ chunk_overlap \in ChunkOverlaps
    /\ encoding \in Encodings
    /\ ChunkLocals
    /\ PipeIdle
    /\ FnIdle

\* lines 72-76: the text is empty after cleaning
EmptyText ==
    /\ pc = "start"
    /\ clean_text(raw) = <<>>
    /\ pc' = "done"
    /\ text' = clean_text(raw)
    /\ branch' = "empty"
    /\ UNCHANGED <<raw, chunk_size, chunk_overlap, encoding, sentences, si, chunks,
                   current_chunk, current_size, words, wi, temp_chunk, temp_size,
                   overlap_text,
                   returned>>
    /\ UNCHANGED <<pipeVars, fnVars>>

\* lines 72-83
CleanAndSplit ==
    /\ pc = "start"
    /\ clean_text(raw) # <<>>
    /\ text' = clean_text(raw)
    /\ sentences' = SplitSentences(text', Len(text'))
    /\ si' = 1
    /\ chunks' = <<>>
    /\ current_chunk' = <<>>
    /\ current_size' = 0
    /\ pc' = "sentences"
    /\ branch' = "split"
    /\ UNCHANGED <<raw, chunk_size, chunk_overlap, encoding, words, wi, temp_chunk,
                   temp_size, overlap_text,
                   returned>>
    /\ UNCHANGED <<pipeVars, fnVars>>

\* the running chunk not emitted before the word loop
LargeSentence_NoFlush ==
    /\ pc = "sentences"
    /\ si <= Len(sentences)
    /\ TooLarge(count_tokens(sentences[si]), chunk_size)
    /\ words' = SplitWords(sentences[si])
    /\ wi' = 1
    /\ temp_chunk' = <<>>
    /\ temp_size' = 0
    /\ pc' = "words"
    /\ branch' = "large"
    /\ UNCHANGED <<raw, chunk_size, chunk_overlap, encoding, text, sentences, si,
                   chunks, current_chunk, current_size, overlap_text, returned>>
    /\ UNCHANGED <<pipeVars, fnVars>>

\* lines 93-103: the sentence alone is larger than chunk_size
LargeSentence ==
    /\ pc = "sentences"
    /\ si <= Len(sentences)
    /\ TooLarge(count_tokens(sentences[si]), chunk_size)
    /\ IF current_chunk # <<>>
       THEN /\ chunks' = Append(chunks, Join(current_chunk))
            /\ current_chunk' = <<>>
            /\ current_size' = 0
       ELSE UNCHANGED <<chunks, current_chunk, current_size>>
    /\ words' = SplitWords(sentences[si])
    /\ wi' = 1
    /\ temp_chunk' = <<>>
    /\ temp_size' = 0
    /\ pc' = "words"
    /\ branch' = "large"
    /\ UNCHANGED <<raw, chunk_size, chunk_overlap, encoding, text, sentences, si,
                   overlap_text,
                   returned>>
    /\ UNCHANGED <<pipeVars, fnVars>>

\* lines 107-112
WordOverflow ==
    /\ pc = "words"
    /\ wi <= Len(words)
    /\ Exceeds(temp_size, count_tokens(words[wi]), chunk_size)
    /\ temp_chunk # <<>>
    /\ chunks' = Append(chunks, Join(temp_chunk))
    /\ overlap_text' = Join(OverlapOf(temp_chunk, chunk_overlap))
    /\ temp_chunk' = Append(OverlapOf(temp_chunk, chunk_overlap), words[wi])
    /\ temp_size' = count_tokens(Join(temp_chunk'))
    /\ wi' = NextWord(wi)
    /\ branch' = "word_overflow"
    /\ UNCHANGED <<pc, raw, chunk_size, chunk_overlap, encoding, text, sentences, si,
                   current_chunk, current_size, words,
                   returned>>
    /\ UNCHANGED <<pipeVars, fnVars>>

\* lines 113-115
WordAppend ==
    /\ pc = "words"
    /\ wi <= Len(words)
    /\ ~(Exceeds(temp_size, count_tokens(words[wi]), chunk_size) /\ temp_chunk # <<>>)
    /\ temp_chunk' = Append(temp_chunk, words[wi])
    /\ temp_size' = temp_size + count_tokens(words[wi])
    /\ wi' = NextWord(wi)
    /\ branch' = "word_append"
    /\ UNCHANGED <<pc, raw, chunk_size, chunk_overlap, encoding, text, sentences, si,
                   chunks, current_chunk, current_size, words, overlap_text,
                   returned>>
    /\ UNCHANGED <<pipeVars, fnVars>>

\* lines 117-119: the word loop is over
WordsDone ==
    /\ pc = "words"
    /\ wi > Len(words)
    /\ IF temp_chunk # <<>>
       THEN /\ current_chunk' = temp_chunk
            /\ current_size' = temp_size
       ELSE UNCHANGED <<current_chunk, current_size>>
    /\ si' = si + 1
    /\ pc' = "sentences"
    /\ branch' = "words_done"
    /\ UNCHANGED <<raw, chunk_size, chunk_overlap, encoding, text, sentences, chunks,
                   words, wi, temp_chunk, temp_size, overlap_text,
                   returned>>
    /\ UNCHANGED <<pipeVars, fnVars>>

\* lines 122-128: the sentence would exceed chunk_size
SentenceOverflow ==
    /\ pc = "sentences"
    /\ si <= Len(sentences)
    /\ ~TooLarge(count_tokens(sentences[si]), chunk_size)
    /\ Exceeds(current_size, count_tokens(sentences[si]), chunk_size)
    /\ current_chunk # <<>>
    /\ chunks' = Append(chunks, Join(current_chunk))
    /\ overlap_text' = Join(OverlapOf(current_chunk, chunk_overlap))
    /\ current_chunk' = IF overlap_text' # <<>>
                        THEN <<overlap_text', sentences[si]>>
                        ELSE <<sentences[si]>>
    /\ current_size' = count_tokens(Join(current_chunk'))
    /\ si' = si + 1
    /\ branch' = "overflow"
    /\ UNCHANGED <<pc, raw, chunk_size, chunk_overlap, encoding, text, sentences,
                   words, wi, temp_chunk, temp_size,
                   returned>>
    /\ UNCHANGED <<pipeVars, fnVars>>

\* lines 129-131
SentenceAppend ==
    /\ pc = "sentences"
    /\ si <= Len(sentences)
    /\ ~TooLarge(count_tokens(sentences[si]), chunk_size)
    /\ ~(Exceeds(current_size, count_tokens(sentences[si]), chunk_size)
         /\ current_chunk # <<>>)
    /\ current_chunk' = Append(current_chunk, sentences[si])
    /\ current_size' = current_size + count_tokens(sentences[si])
    /\ si' = si + 1
    /\ branch' = "append"
    /\ UNCHANGED <<pc, raw, chunk_size, chunk_overlap, encoding, text, sentences,
                   chunks, words, wi, temp_chunk, temp_size, overlap_text,
                   returned>>
    /\ UNCHANGED <<pipeVars, fnVars>>

\* the remaining chunk forgotten
AddRemaining_Forgotten ==
    /\ pc = "sentences"
    /\ si > Len(sentences)
    /\ pc' = "filter"
    /\ branch' = "remaining"
    /\ UNCHANGED <<raw, chunk_size, chunk_overlap, encoding, text, sentences, si,
                   chunks, current_chunk, current_size, words, wi, temp_chunk,
                   temp_size, overlap_text, returned>>
    /\ UNCHANGED <<pipeVars, fnVars>>

\* lines 133-135: the remaining chunk
AddRemaining ==
    /\ pc = "sentences"
    /\ si > Len(sentences)
    /\ chunks' = IF current_chunk # <<>>
                 THEN Append(chunks, Join(current_chunk))
                 ELSE chunks
    /\ pc' = "filter"
    /\ branch' = "remaining"
    /\ UNCHANGED <<raw, chunk_size, chunk_overlap, encoding, text, sentences, si,
                   current_chunk, current_size, words, wi, temp_chunk, temp_size,
                   overlap_text,
                   returned>>
    /\ UNCHANGED <<pipeVars, fnVars>>

\* lines 137-142: the filter and the return
FilterSmall ==
    /\ pc = "filter"
    /\ returned' = FilterChunks(chunks)
    /\ pc' = "done"
    /\ branch' = "filter"
    /\ UNCHANGED <<raw, chunk_size, chunk_overlap, encoding, text, sentences, si,
                   chunks, current_chunk, current_size, words, wi, temp_chunk,
                   temp_size, overlap_text>>
    /\ UNCHANGED <<pipeVars, fnVars>>

ChunkNext ==
    \/ EmptyText
    \/ CleanAndSplit
    \/ LargeSentence
    \/ WordOverflow
    \/ WordAppend
    \/ WordsDone
    \/ SentenceOverflow
    \/ SentenceAppend
    \/ AddRemaining
    \/ FilterSmall

SpecChunk == ChunkInit /\ [][ChunkNext]_vars

\* a call of chunk_text with any chunk_size and chunk_overlap
ChunkInitAny ==
    /\ pc = "start"
    /\ raw \in RawTexts
    /\ chunk_size \in AnyChunkSizes
    /\ chunk_overlap \in AnyChunkOverlaps
    /\ encoding \in Encodings
    /\ ChunkLocals
    /\ PipeIdle
    /\ FnIdle

SpecChunkAny == ChunkInitAny /\ [][ChunkNext]_vars

-----------------------------------------------------------------------------
(* The pipeline object of main.py and the calls made on it                 *)

Stores ==
    {[exists |-> FALSE, records |-> <<>>]}
        \cup {[exists |-> TRUE, records |-> RecordsOf(t)] : t \in Batches}

\* the state after rag_pipeline = RAGPipeline(): __init__ and _ensure_vector_db
\* have run against whatever an earlier process left in the store
Init ==
    /\ store \in Stores
    /\ collection = load_vector_db(store)
    /\ vector_db_loaded = (load_vector_db(store) # "None")
    /\ api_key \in BOOLEAN
    /\ op = NoOp
    /\ results = NoResults
    /\ retrieved = <<>>
    /\ answer = NoAnswer
    /\ llm_calls = 0
    /\ fallback_calls = 0
    /\ llm_raised = FALSE
    /\ fallback_args = <<>>
    /\ raised = FALSE
    /\ http = NoRequest
    /\ setup_args = NoSetup
    /\ stages = {}
    /\ built = FALSE
    /\ ChunkIdle
    /\ FnIdle

\* results, retrieved, answer and the call counts describe the last call only:
\* a call that is neither a search nor an ask leaves them empty
NothingReturned ==
    /\ results' = NoResults
    /\ retrieved' = <<>>
    /\ answer' = NoAnswer
    /\ llm_calls' = 0
    /\ fallback_calls' = 0
    /\ llm_raised' = FALSE
    /\ fallback_args' = <<>>
    /\ http' = NoRequest

\* search_similar(create_query_embedding(question), top_k), called directly
SearchSimilar ==
    \E question \in Texts, k \in TopKs :
        \E found \in {search_similar(collection, store, Embed(question), k)} :
            /\ collection' = found.collection
            /\ results' = found.results
            /\ retrieved' = found.value
            /\ raised' = found.raised
            /\ op' = [name |-> "search_similar", question |-> question, top_k |-> k,
                      force_rebuild |-> FALSE]
            /\ answer' = NoAnswer
            /\ llm_calls' = 0
            /\ fallback_calls' = 0
            /\ llm_raised' = FALSE
            /\ fallback_args' = <<>>
            /\ http' = NoRequest
            /\ setup_args' = NoSetup
            /\ stages' = {"create_query_embedding", "search_similar"}
            /\ UNCHANGED <<store, vector_db_loaded, api_key, built>>
            /\ UNCHANGED <<chunkVars, fnVars>>

\* rag_pipeline.ask(question, top_k); llm_ok says whether the call of the
\* hosted LLM, if one is made, returns
Ask ==
    \E question \in Texts, k \in TopKs, llm_ok \in BOOLEAN :
        \E out \in {ask(vector_db_loaded, collection, store, question, k,
                        api_key, llm_ok)} :
            /\ collection' = out.collection
            /\ results' = out.results
            /\ retrieved' = out.retrieved
            /\ answer' = out.record
            /\ llm_calls' = out.llm
            /\ fallback_calls' = out.fallback
            /\ llm_raised' = out.llm_raised
            /\ fallback_args' = out.args
            /\ raised' = FALSE
            /\ http' = NoRequest
            /\ setup_args' = NoSetup
            /\ stages' = out.stages
            /\ op' = [name |-> "ask", question |-> question, top_k |-> k,
                      force_rebuild |-> FALSE]
            /\ UNCHANGED <<store, vector_db_loaded, api_key, built>>
            /\ UNCHANGED <<chunkVars, fnVars>>

\* POST /ask, lines 81-113, for a question that is empty or only whitespace:
\* the HTTPException of line 83 is raised inside the try block
AskQuestionBlank ==
    LET error == AskQuestionError(EmptyQuestion)
    IN  /\ http' = [route |-> "/ask", blank |-> TRUE, asked |-> FALSE,
                    status |-> error.status, detail |-> error.detail]
        /\ op' = [name |-> "ask_question", question |-> 0, top_k |-> 0,
                  force_rebuild |-> FALSE]
        /\ results' = NoResults
        /\ retrieved' = <<>>
        /\ answer' = NoAnswer
        /\ llm_calls' = 0
        /\ fallback_calls' = 0
        /\ llm_raised' = FALSE
        /\ fallback_args' = <<>>
        /\ raised' = FALSE
        /\ setup_args' = NoSetup
        /\ stages' = {}
        /\ UNCHANGED <<store, collection, vector_db_loaded, api_key, built>>
        /\ UNCHANGED <<chunkVars, fnVars>>

\* POST /ask, lines 81-109, for any other question: rag_pipeline.ask is
\* called and its record is the response
AskQuestion ==
    \E question \in Texts, k \in TopKs, llm_ok \in BOOLEAN :
        \E out \in {ask(vector_db_loaded, collection, store, question, k,
                        api_key, llm_ok)} :
            /\ collection' = out.collection
            /\ results' = out.results
            /\ retrieved' = out.retrieved
            /\ answer' = out.record
            /\ llm_calls' = out.llm
            /\ fallback_calls' = out.fallback
            /\ llm_raised' = out.llm_raised
            /\ fallback_args' = out.args
            /\ raised' = FALSE
            /\ http' = [route |-> "/ask", blank |-> FALSE, asked |-> TRUE,
                        status |-> 200, detail |-> ""]
            /\ setup_args' = NoSetup
            /\ stages' = out.stages
            /\ op' = [name |-> "ask", question |-> question, top_k |-> k,
                      force_rebuild |-> FALSE]
            /\ UNCHANGED <<store, vector_db_loaded, api_key, built>>
            /\ UNCHANGED <<chunkVars, fnVars>>

\* rag_pipeline.process_documents(data_dir, force_rebuild) on the directory dir
\* whose documents are chunked to pieces
Process(force, dir, pieces) ==
    \E out \in {process_documents(vector_db_loaded, store, collection, force, dir,
                                  pieces)} :
        /\ store' = out.store
        /\ collection' = out.collection
        /\ vector_db_loaded' = out.loaded
        /\ raised' = out.raised
        /\ setup_args' = out.setup_args
        /\ stages' = out.stages
        /\ built' = (built \/ (out.setup_args.called /\ ~out.raised))
        /\ op' = [name |-> "process_documents", question |-> 0, top_k |-> 0,
                  force_rebuild |-> force]
        /\ NothingReturned
        /\ UNCHANGED api_key
        /\ UNCHANGED <<chunkVars, fnVars>>

\* process_documents, lines 45-47: the vector database is loaded and no
\* rebuild is forced
ProcessSkipped ==
    \E dir \in DataDirs :
        \E pieces \in ChunksOf(ingest_pdfs(dir)) :
            /\ vector_db_loaded
            /\ Process(FALSE, dir, pieces)

\* process_documents, lines 54-58: ingest_pdfs returns no text
ProcessNoDocuments ==
    \E force \in BOOLEAN, dir \in DataDirs :
        /\ ~vector_db_loaded \/ force
        /\ ingest_pdfs(dir) = <<>>
        /\ Process(force, dir, <<>>)

\* process_documents, lines 60-79, and setup_vector_db: the chunks of the
\* documents are embedded and replace the collection
ProcessStored ==
    \E force \in BOOLEAN, dir \in DataDirs :
        \E pieces \in ChunksOf(ingest_pdfs(dir)) :
            /\ ~vector_db_loaded \/ force
            /\ ingest_pdfs(dir) # <<>>
            /\ pieces # <<>>
            /\ Process(force, dir, pieces)

\* process_documents when the documents give no chunk: create_embeddings
\* returns empty lists, setup_vector_db deletes the collection, creates it anew
\* and _collection.add rejects the empty batch
ProcessNoChunks ==
    \E force \in BOOLEAN, dir \in DataDirs :
        /\ ~vector_db_loaded \/ force
        /\ ingest_pdfs(dir) # <<>>
        /\ Process(force, dir, <<>>)

Next ==
    \/ SearchSimilar
    \/ Ask
    \/ AskQuestionBlank
    \/ AskQuestion
    \/ ProcessSkipped
    \/ ProcessNoDocuments
    \/ ProcessStored
    \/ ProcessNoChunks

Spec == Init /\ [][Next]_vars

-----------------------------------------------------------------------------
(* _fallback_response called on its own                                    *)

FallbackInit ==
    /\ fb_pc = "call"
    /\ fb_context \in Contexts
    /\ fb_question \in Questions
    /\ fb_response = <<>>
    /\ ChunkIdle
    /\ PipeIdle
    /\ SrvIdle
    /\ EvIdle
    /\ AuxIdle

FallbackResponse ==
    /\ fb_pc = "call"
    /\ fb_response' = fallback_response(fb_context, fb_question)
    /\ fb_pc' = "done"
    /\ UNCHANGED <<fb_context, fb_question>>
    /\ UNCHANGED <<chunkVars, pipeVars, srvVars, evVars, auxVars>>

FallbackNext == FallbackResponse

SpecFallback == FallbackInit /\ [][FallbackNext]_vars

-----------------------------------------------------------------------------
(* The event loop of main.py: POST /ask and POST /process served together  *)
(*                                                                         *)
(* uvicorn.run(app) serves the requests on one event loop.  ask_question   *)
(* and process_documents are coroutines (async def) without an await: once *)
(* the loop has started one it runs to its return, and the other request   *)
(* waits.  The rebuild is stepped through the three calls setup_vector_db  *)
(* makes on the store.                                                     *)

\* the stores the server may find when it starts
ServerStores ==
    {[exists |-> FALSE, records |-> <<>>],
     [exists |-> TRUE, records |-> RecordsOf(<<2>>)],
     [exists |-> TRUE, records |-> RecordsOf(LargeBatch)]}

\* the chunks of the documents in the data directory
ServerBatches == {<<1>>, <<0, 3>>}

\* the positions at which a handler is on the event loop
OnLoop == {"running", "deleted", "created", "respond"}

\* the rebuild has deleted the collection and has not yet populated the new one
Window == {"deleted", "created"}

\* the handlers run on threads of their own
LoopFree_Threads(other_pc) == TRUE

\* the loop starts a handler only when no other handler is on it
LoopFree(other_pc) == other_pc \notin OnLoop

ServerInit ==
    /\ store \in ServerStores
    /\ collection = load_vector_db(store)
    /\ vector_db_loaded = (load_vector_db(store) # "None")
    /\ api_key \in BOOLEAN
    /\ op = NoOp
    /\ results = NoResults
    /\ retrieved = <<>>
    /\ answer = NoAnswer
    /\ llm_calls = 0
    /\ fallback_calls = 0
    /\ llm_raised = FALSE
    /\ fallback_args = <<>>
    /\ raised = FALSE
    /\ http = NoRequest
    /\ setup_args = NoSetup
    /\ stages = {}
    /\ built = FALSE
    /\ ask_pc = "idle"
    /\ process_pc = "idle"
    /\ process_force = FALSE
    /\ new_batch = <<>>
    /\ ask_saw = "nothing"
    /\ ChunkIdle
    /\ FbIdle
    /\ EvIdle
    /\ AuxIdle

askOutputs == <<op, results, retrieved, answer, llm_calls, fallback_calls, llm_raised,
                fallback_args, raised>>

\* a POST /ask arrives
ReceiveAsk ==
    /\ ask_pc = "idle"
    /\ ask_pc' = "pending"
    /\ UNCHANGED <<store, collection, vector_db_loaded, api_key, askOutputs, http,
                   setup_args, stages, built, process_pc, process_force, new_batch, ask_saw>>
    /\ UNCHANGED <<chunkVars, fbVars, evVars, auxVars>>

\* a POST /process?force_rebuild= arrives
ReceiveProcess ==
    \E force \in BOOLEAN, texts \in ServerBatches :
        /\ process_pc = "idle"
        /\ process_pc' = "pending"
        /\ process_force' = force
        /\ new_batch' = texts
        /\ UNCHANGED <<store, collection, vector_db_loaded, api_key, askOutputs, http,
                       setup_args, stages, built, ask_pc, ask_saw>>
        /\ UNCHANGED <<chunkVars, fbVars, evVars, auxVars>>

\* the loop starts ask_question
StartAsk ==
    /\ ask_pc = "pending"
    /\ LoopFree(process_pc)
    /\ ask_pc' = "running"
    /\ ask_saw' = "nothing"
    /\ UNCHANGED <<store, collection, vector_db_loaded, api_key, askOutputs, http,
                   setup_args, stages, built, process_pc, process_force, new_batch>>
    /\ UNCHANGED <<chunkVars, fbVars, evVars, auxVars>>

\* main.py 86-90: rag_pipeline.ask and, in it, the query on the store; a query
\* on a collection that has been deleted raises
AskQuery ==
    \E question \in Texts, llm_ok \in BOOLEAN :
        LET out == ask(vector_db_loaded, collection, store, question, 0, api_key, llm_ok)
            gone == vector_db_loaded /\ collection # "None" /\ ~store.exists
        IN  /\ ask_pc = "running"
            /\ ask_pc' = "respond"
            /\ ask_saw' = IF process_pc \in Window THEN "window" ELSE "settled"
            /\ collection' = IF gone THEN collection ELSE out.collection
            /\ results' = IF gone THEN NoResults ELSE out.results
            /\ retrieved' = IF gone THEN <<>> ELSE out.retrieved
            /\ answer' = IF gone THEN NoAnswer ELSE out.record
            /\ llm_calls' = IF gone THEN 0 ELSE out.llm
            /\ fallback_calls' = IF gone THEN 0 ELSE out.fallback
            /\ llm_raised' = IF gone THEN FALSE ELSE out.llm_raised
            /\ fallback_args' = IF gone THEN <<>> ELSE out.args
            /\ raised' = gone
            /\ op' = [name |-> "ask", question |-> question, top_k |-> 0,
                      force_rebuild |-> FALSE]
            /\ UNCHANGED <<store, vector_db_loaded, api_key, http, setup_args, stages, built,
                           process_pc, process_force, new_batch>>
            /\ UNCHANGED <<chunkVars, fbVars, evVars, auxVars>>

\* main.py 101-113: the response of ask_question
AskRespond ==
    /\ ask_pc = "respond"
    /\ ask_pc' = "idle"
    /\ http' = [route |-> "/ask", blank |-> FALSE, asked |-> TRUE,
                status |-> IF raised THEN 500 ELSE 200, detail |-> ""]
    /\ UNCHANGED <<store, collection, vector_db_loaded, api_key, askOutputs,
                   setup_args, stages, built, process_pc, process_force, new_batch, ask_saw>>
    /\ UNCHANGED <<chunkVars, fbVars, evVars, auxVars>>

\* the loop starts process_documents
StartProcess ==
    /\ process_pc = "pending"
    /\ LoopFree(ask_pc)
    /\ process_pc' = "running"
    /\ UNCHANGED <<store, collection, vector_db_loaded, api_key, askOutputs, http,
                   setup_args, stages, built, ask_pc, process_force, new_batch, ask_saw>>
    /\ UNCHANGED <<chunkVars, fbVars, evVars, auxVars>>

\* qa_pipeline.py 45-47: nothing to do
ProcessSkip ==
    /\ process_pc = "running"
    /\ vector_db_loaded /\ ~process_force
    /\ process_pc' = "respond"
    /\ UNCHANGED <<store, collection, vector_db_loaded, api_key, askOutputs, http,
                   setup_args, stages, built, ask_pc, process_force, new_batch, ask_saw>>
    /\ UNCHANGED <<chunkVars, fbVars, evVars, auxVars>>

\* qa_pipeline.py 49-76 and retrieval.py 46-50: the documents are chunked and
\* embedded, and setup_vector_db deletes the collection
ProcessDelete ==
    /\ process_pc = "running"
    /\ ~vector_db_loaded \/ process_force
    /\ store' = delete_collection(store)
    /\ process_pc' = "deleted"
    /\ UNCHANGED <<collection, vector_db_loaded, api_key, askOutputs, http,
                   setup_args, stages, built, ask_pc, process_force, new_batch, ask_saw>>
    /\ UNCHANGED <<chunkVars, fbVars, evVars, auxVars>>

\* retrieval.py 53-56: the new, empty collection
ProcessCreate ==
    /\ process_pc = "deleted"
    /\ store' = create_collection(store).store
    /\ collection' = "handle"
    /\ process_pc' = "created"
    /\ UNCHANGED <<vector_db_loaded, api_key, askOutputs, http,
                   setup_args, stages, built, ask_pc, process_force, new_batch, ask_saw>>
    /\ UNCHANGED <<chunkVars, fbVars, evVars, auxVars>>

\* retrieval.py 60-70 and qa_pipeline.py 77: the batch is added
ProcessAdd ==
    /\ process_pc = "created"
    /\ store' = add(store, create_embeddings(new_batch), new_batch,
                    DocIds(new_batch)).store
    /\ vector_db_loaded' = TRUE
    /\ process_pc' = "respond"
    /\ UNCHANGED <<collection, api_key, askOutputs, http,
                   setup_args, stages, built, ask_pc, process_force, new_batch, ask_saw>>
    /\ UNCHANGED <<chunkVars, fbVars, evVars, auxVars>>

\* main.py 125-129: the response of process_documents
ProcessRespond ==
    /\ process_pc = "respond"
    /\ process_pc' = "idle"
    /\ http' = [route |-> "/process", blank |-> FALSE, asked |-> FALSE,
                status |-> 200, detail |-> ""]
    /\ UNCHANGED <<store, collection, vector_db_loaded, api_key, askOutputs,
                   setup_args, stages, built, ask_pc, process_force, new_batch, ask_saw>>
    /\ UNCHANGED <<chunkVars, fbVars, evVars, auxVars>>

ServerNext ==
    \/ ReceiveAsk
    \/ ReceiveProcess
    \/ StartAsk
    \/ AskQuery
    \/ AskRespond
    \/ StartProcess
    \/ ProcessSkip
    \/ ProcessDelete
    \/ ProcessCreate
    \/ ProcessAdd
    \/ ProcessRespond

SpecServer == ServerInit /\ [][ServerNext]_vars

-----------------------------------------------------------------------------
(* comprehensive_evaluation called on its own                              *)

EvalInit ==
    /\ ev_pc = "call"
    /\ ev_query \in EvalQueries
    /\ ev_answer \in EvalAnswers
    /\ \E n \in 0..MaxRetrieved :
          /\ ev_retrieved \in [1..n -> EvalTexts \cup {ev_query}]
          /\ ev_sims \in [1..n -> Cosines]
    /\ \A i \in 1..Len(ev_retrieved) : ev_retrieved[i] = ev_query => ev_sims[i] = 100
    /\ ev_result = NoEvaluation
    /\ ChunkIdle
    /\ PipeIdle
    /\ FbIdle
    /\ SrvIdle
    /\ AuxIdle

ComprehensiveEvaluation ==
    /\ ev_pc = "call"
    /\ ev_result' = comprehensive_evaluation(ev_query, ev_retrieved, ev_sims, ev_answer)
    /\ ev_pc' = "done"
    /\ UNCHANGED <<ev_query, ev_retrieved, ev_sims, ev_answer>>
    /\ UNCHANGED <<chunkVars, pipeVars, fbVars, srvVars, auxVars>>

EvalNext == ComprehensiveEvaluation

SpecEval == EvalInit /\ [][EvalNext]_vars

-----------------------------------------------------------------------------
(* summarize_chunks called on its own                                      *)

SummaryInit ==
    /\ sm_pc = "call"
    /\ sm_chunks \in SummaryInputs
    /\ sm_max_length \in MaxLengths
    /\ sm_summary = <<>>
    /\ ChunkIdle
    /\ PipeIdle
    /\ FbIdle
    /\ SrvIdle
    /\ EvIdle
    /\ EmIdle

SummarizeChunks ==
    /\ sm_pc = "call"
    /\ sm_summary' = summarize_chunks(sm_chunks, sm_max_length)
    /\ sm_pc' = "done"
    /\ UNCHANGED <<sm_chunks, sm_max_length>>
    /\ UNCHANGED <<chunkVars, pipeVars, fbVars, srvVars, evVars, emVars>>

SummaryNext == SummarizeChunks

SpecSummary == SummaryInit /\ [][SummaryNext]_vars

-----------------------------------------------------------------------------
(* The functions of embeddings.py called in one process, in any order      *)

\* the state after the import of embeddings.py
EmbedInit ==
    /\ em_model = NoModel
    /\ em_loads = 0
    /\ em_op = NoCall
    /\ em_out = NoModel
    /\ em_first = NoModel
    /\ em_calls = 0
    /\ ChunkIdle
    /\ PipeIdle
    /\ FbIdle
    /\ SrvIdle
    /\ EvIdle
    /\ SmIdle

\* what a call leaves behind: done is the outcome of the function called
Called(name, model_name, no_texts, done) ==
    /\ em_calls < MaxCalls
    /\ em_calls' = em_calls + 1
    /\ em_model' = done.model
    /\ em_loads' = done.loads
    /\ em_out' = done.returned
    /\ em_first' = IF em_first = NoModel THEN done.returned ELSE em_first
    /\ em_op' = [name |-> name, model_name |-> model_name, no_texts |-> no_texts,
                 raised |-> done.raised]
    /\ UNCHANGED <<chunkVars, pipeVars, fbVars, srvVars, evVars, smVars>>

LoadEmbeddingModel ==
    \E model_name \in ModelNames, ok \in BOOLEAN :
        Called("load_embedding_model", model_name, FALSE,
               load_embedding_model(em_model, em_loads, model_name, ok))

CreateEmbeddings ==
    \E model_name \in ModelNames, ok \in BOOLEAN, no_texts \in BOOLEAN :
        Called("create_embeddings", model_name, no_texts,
               create_embeddings_model(em_model, em_loads, no_texts, model_name, ok))

CreateQueryEmbedding ==
    \E model_name \in ModelNames, ok \in BOOLEAN :
        Called("create_query_embedding", model_name, FALSE,
               create_query_embedding_model(em_model, em_loads, model_name, ok))

EmbedNext ==
    \/ LoadEmbeddingModel
    \/ CreateEmbeddings
    \/ CreateQueryEmbedding

SpecEmbed == EmbedInit /\ [][EmbedNext]_vars

-----------------------------------------------------------------------------
(* Properties of chunk_text                                                *)

Positions(s) == {s[k].pos : k \in 1..Len(s)}

RECURSIVE Letters(_)
Letters(s) == IF s = <<>> THEN 0 ELSE s[1].len + Letters(Tail(s))

RECURSIVE LettersOfAll(_)
LettersOfAll(cs) == IF cs = <<>> THEN 0 ELSE Letters(cs[1]) + LettersOfAll(Tail(cs))

\* a is the tail of b, word for word
IsTrailingSlice(a, b) ==
    /\ Len(a) <= Len(b)
    /\ \A k \in 1..Len(a) : a[k].pos = b[Len(b) - Len(a) + k].pos

\* sentence s stands whole and contiguous in chunk c, or not at all
WholeOrAbsent(s, c) ==
    LET K == {k \in 1..Len(c) : c[k].pos \in Positions(s)}
    IN  \/ K = {}
        \/ \E k0 \in 0..(Len(c) - Len(s)) :
              /\ K = (k0 + 1)..(k0 + Len(s))
              /\ \A j \in 1..Len(s) :
                    /\ c[k0 + j].pos = s[j].pos
                    /\ j > 1 => c[k0 + j].g = s[j].g

NoWordExceeds ==
    \A i \in 1..Len(text) :
        count_tokens(<<[pos |-> i, len |-> text[i].len, g |-> 0]>>) <= chunk_size

\* every word of the text is in some chunk of cs, and the chunks of cs hold at
\* least the letters of the text
CoversInput(cs) ==
    /\ \A p \in 1..Len(text) : \E i \in 1..Len(cs) : p \in Positions(cs[i])
    /\ LettersOfAll(cs) >= Letters(AsString(text))

\* C2: with no word above chunk_size and 0 <= chunk_overlap < chunk_size, every
\* returned chunk has at most chunk_size + chunk_overlap tokens.
C2_ChunkWithinBudget ==
    (pc = "done" /\ chunk_overlap >= 0 /\ chunk_overlap < chunk_size /\ NoWordExceeds)
        => \A i \in 1..Len(returned) :
              count_tokens(returned[i]) <= chunk_size + chunk_overlap

\* C3: when a chunk is emitted because the next sentence would exceed
\* chunk_size, the text carried into the next chunk is a trailing slice of the
\* emitted chunk of at most chunk_overlap tokens: nothing when chunk_overlap
\* is 0, and never the whole chunk when the chunk has more than chunk_overlap
\* tokens.
C3_CarriedIsOverlapSlice ==
    branch = "overflow"
        => LET emitted == chunks[Len(chunks)]
           IN  /\ IsTrailingSlice(overlap_text, emitted)
               /\ count_tokens(overlap_text) <= chunk_overlap
               /\ chunk_overlap = 0 => overlap_text = <<>>
               /\ count_tokens(emitted) > chunk_overlap
                     => Len(overlap_text) < Len(emitted)

\* C4: every chunk chunk_text returns has more than 10 tokens.
C4_ReturnedAboveTen ==
    pc = "done" => \A i \in 1..Len(returned) : count_tokens(returned[i]) > 10

\* a chunk is returned and an assembled chunk of 10 tokens or fewer is not
C4_Witness ==
    /\ pc = "done"
    /\ returned # <<>>
    /\ Len(returned) < Len(chunks)

\* C5 as stated: a text of fewer than chunk_size tokens gives one chunk when
\* the text has more than 10 tokens and none otherwise.
C5_ShortTextByTextTokens ==
    (pc = "done" /\ count_tokens_text(raw) < chunk_size)
        => Len(returned) = (IF count_tokens_text(raw) > 10 THEN 1 ELSE 0)

\* C5 amended: a text of fewer than chunk_size tokens gives at most one chunk,
\* the cleaned text with its sentences joined by single blanks: it is returned
\* when that chunk has more than 10 tokens, and nothing is returned otherwise.
C5_ShortTextByChunkTokens ==
    (pc = "done" /\ count_tokens_text(raw) < chunk_size)
        => returned = (IF count_tokens(Join(sentences)) > 10
                       THEN <<Join(sentences)>> ELSE <<>>)

\* a short text of more than 10 tokens whose only chunk has 10 and is dropped
C5_Witness ==
    /\ pc = "done"
    /\ branch = "filter"
    /\ count_tokens_text(raw) < chunk_size
    /\ count_tokens_text(raw) > 10
    /\ Len(chunks) = 1
    /\ returned = <<>>

\* C6 as stated: no sentence is dropped, every sentence of the input is in
\* some returned chunk and the returned chunks hold at least the input's
\* tokens, one token a letter.
C6_ReturnedCoversInput == pc = "done" => CoversInput(returned)

\* C6 amended: every sentence of the input is in some chunk assembled before
\* the final filter, and these chunks hold at least the input's tokens, one
\* token a letter; only the filter of chunks of 10 tokens or fewer drops text.
C6_AssembledCoversInput == pc = "done" => CoversInput(chunks)

\* three one-word sentences, chunk_size 2 and chunk_overlap 1: two chunks are
\* assembled and the filter returns none
C6_Witness ==
    /\ pc = "done"
    /\ Len(sentences) = 3
    /\ chunk_size = 2
    /\ chunk_overlap = 1
    /\ Len(chunks) = 2
    /\ returned = <<>>

\* C7: a sentence of at most chunk_size tokens is never split: in every chunk
\* it stands whole and contiguous or not at all.
C7_SmallSentenceWhole ==
    \A i \in 1..Len(chunks) : \A j \in 1..Len(sentences) :
        ~TooLarge(count_tokens(sentences[j]), chunk_size)
            => WholeOrAbsent(sentences[j], chunks[i])

\* a two-word sentence that fits, in a chunk, next to an oversized sentence
\* that went through the word loop
C7_Witness ==
    /\ pc = "done"
    /\ \E j \in 1..Len(sentences) :
          /\ Len(sentences[j]) = 2
          /\ ~TooLarge(count_tokens(sentences[j]), chunk_size)
          /\ \E i \in 1..Len(chunks) : Positions(sentences[j]) \subseteq Positions(chunks[i])
    /\ \E j \in 1..Len(sentences) : TooLarge(count_tokens(sentences[j]), chunk_size)

-----------------------------------------------------------------------------
(* Properties of search_similar and ask                                    *)

\* C1: every (chunk, score) pair search_similar returns has a score of at
\* least SIMILARITY_THRESHOLD, the score being 1 - distance for a distance the
\* store reported for that chunk.
C1_ScoresAtLeastThreshold ==
    \A i \in 1..Len(retrieved) :
        /\ retrieved[i][2] >= SIMILARITY_THRESHOLD
        /\ \E j \in 1..Len(results.documents) :
              /\ results.documents[j] = retrieved[i][1]
              /\ retrieved[i][2] = 100 - results.distances[j]

\* a search that kept a chunk exactly at the threshold and filtered another
C1_Witness ==
    /\ op.name = "search_similar"
    /\ \E i \in 1..Len(retrieved) : retrieved[i][2] = SIMILARITY_THRESHOLD
    /\ Len(retrieved) < Len(results.documents)

\* C8: the list search_similar returns is ordered by non-increasing score.
C8_DescendingScores ==
    \A i \in 1..Len(retrieved) : \A j \in i..Len(retrieved) :
        retrieved[i][2] >= retrieved[j][2]

\* two chunks returned with different scores
C8_Witness ==
    /\ op.name = "search_similar"
    /\ Len(retrieved) = 2
    /\ retrieved[1][2] > retrieved[2][2]

\* C9: with no collection set up in this process and none in the store,
\* search_similar returns the empty list and raises nothing.
C9_NoCollectionEmptyList ==
    (op.name = "search_similar" /\ ~store.exists)
        => (retrieved = <<>> /\ ~raised /\ collection = "None")

\* a search made while no collection exists
C9_Witness ==
    /\ op.name = "search_similar"
    /\ ~store.exists
    /\ collection = "None"

\* C10: when the vector database is loaded and retrieval returns nothing at or
\* above the threshold, ask returns the "couldn't find relevant information"
\* record with no sources, confidence 0.0 and num_sources 0, and calls neither
\* the hosted LLM nor the fallback answerer.
C10_NoMatchRecord ==
    (op.name = "ask" /\ vector_db_loaded /\ retrieved = <<>>)
        => /\ answer.answer = "I couldn't find relevant information to answer your question."
           /\ answer.sources = <<>>
           /\ answer.confidence.sum = 0
           /\ answer.num_sources = 0
           /\ llm_calls = 0
           /\ fallback_calls = 0

\* an ask with an API key whose search got chunks from the store, all of them
\* below the threshold
C10_Witness ==
    /\ op.name = "ask"
    /\ vector_db_loaded
    /\ api_key
    /\ results.documents # <<>>
    /\ retrieved = <<>>

C14_ThreeSourcesAllCounted ==
    (op.name = "ask" /\ retrieved # <<>>)
        => LET n == Len(retrieved)
           IN  /\ Len(answer.sources) = Min(3, n)
               /\ \A i \in 1..Min(3, n) : answer.sources[i] = retrieved[i][1]
               /\ answer.num_sources = n

\* an ask with top_k = 4 that retrieved four chunks: three sources, counted 4
C14_Witness ==
    /\ op.name = "ask"
    /\ op.top_k = 4
    /\ Len(retrieved) = 4
    /\ Len(answer.sources) = 3
    /\ answer.num_sources = 4

\* C15: a POST /ask whose question is empty or only whitespace is answered
\* with status 400 and "Question cannot be empty", and rag_pipeline.ask is not
\* called for it.
C15_BlankQuestionIs400 ==
    (http.route = "/ask" /\ http.blank)
        => /\ http.status = 400
           /\ http.detail = "Question cannot be empty"
           /\ ~http.asked

\* C16: after a completed call of setup_vector_db, whatever calls came before
\* it, the collection holds exactly the records of that call: len(texts)
\* records with the identifiers doc_0 .. doc_{n-1} in input order, each pairing
\* texts[i] with embeddings[i], and no record of an earlier call.
C16_OnlyLastBatchStored ==
    (setup_args.called /\ ~raised)
        => /\ store.exists
           /\ Len(store.records) = Len(setup_args.texts)
           /\ \A i \in 1..Len(setup_args.texts) :
                 store.records[i] = [id |-> i - 1, text |-> setup_args.texts[i],
                                     emb |-> setup_args.embeddings[i]]

\* a forced rebuild that stored one chunk
C16_Witness ==
    /\ setup_args.called
    /\ ~raised
    /\ op.force_rebuild
    /\ Len(setup_args.texts) = 1
    /\ store.records = <<[id |-> 0, text |-> 2, emb |-> 2]>>

\* thresholds around the distances the store reports
Thresholds == {0, 49, 50, 51, 100}

\* the store returns the k nearest, then the pairs below the threshold are
\* dropped
LimitThenFilter(recs, q, k, threshold) ==
    LET reply == Query(recs, q, k)
        pairs == [i \in 1..Len(reply.documents) |->
                     <<reply.documents[i], 100 - reply.distances[i]>>]
    IN  SelectSeq(pairs, LAMBDA pair : pair[2] >= threshold)

\* every stored chunk below the threshold is dropped, then the k most similar
\* are taken
FilterThenLimit(recs, q, k, threshold) ==
    LET passing == SelectSeq(recs, LAMBDA rec : 100 - Distance(q, rec.emb) >= threshold)
        best == SubSeq(Nearest(passing, q), 1, Min(k, Len(passing)))
    IN  [i \in 1..Len(best) |-> <<best[i].text, 100 - Distance(q, best[i].emb)>>]

\* C20 as stated: there are store contents (among those a process may find
\* and the one it has now), a top_k and a threshold for which limit-then-filter
\* returns a different number of chunks than filter-then-limit.
C20_OrderChangesCount ==
    \E st \in Stores \cup {store}, q \in Texts, k \in TopKs, threshold \in Thresholds :
        Len(LimitThenFilter(st.records, Embed(q), TopKOrDefault(k), threshold))
            # Len(FilterThenLimit(st.records, Embed(q), TopKOrDefault(k), threshold))

\* C20 amended: the order of the threshold filter and the top_k truncation
\* does not affect the result: what search_similar returns, limit-then-filter,
\* is what filter-then-limit gives for the same store, query and top_k, the
\* most similar min(top_k, p) of the p stored chunks at or above the threshold.
C20_OrderDoesNotMatter ==
    (op.name = "search_similar" /\ collection # "None")
        => /\ retrieved = FilterThenLimit(store.records, Embed(op.question),
                                          TopKOrDefault(op.top_k), SIMILARITY_THRESHOLD)
           /\ \A threshold \in Thresholds :
                 LimitThenFilter(store.records, Embed(op.question),
                                 TopKOrDefault(op.top_k), threshold)
                     = FilterThenLimit(store.records, Embed(op.question),
                                       TopKOrDefault(op.top_k), threshold)

\* a search in which the limit cut stored chunks off and the filter dropped a
\* chunk of those the store returned
C20_Witness ==
    /\ op.name = "search_similar"
    /\ Len(results.documents) < Len(store.records)
    /\ Len(retrieved) < Len(results.documents)
    /\ retrieved # <<>>

-----------------------------------------------------------------------------
(* Properties of _fallback_response                                        *)

\* the '.'-delimited segments of the context that contain, case ignored, a
\* word of the question of more than 3 characters
MatchingSegments ==
    SelectSeq(SplitOn(fb_context, Dot),
              LAMBDA segment :
                  \E w \in {SplitWhitespace(fb_question)[i] :
                                i \in 1..Len(SplitWhitespace(fb_question))} :
                      CharLen(w) > 3 /\ In(Lower(w), Lower(segment)))

\* C12: when no '.'-delimited segment of the context contains a question word
\* of more than 3 characters, _fallback_response returns "Based on the provided
\* context: ", the first 200 characters of the context and "...".
C12_NoMatchTruncatedContext ==
    (fb_pc = "done" /\ MatchingSegments = <<>>)
        => fb_response = <<BasedOn>> \o Prefix(fb_context, 200) \o <<Ellipsis>>

\* a context of more than 200 characters, cut inside a word, for a question
\* with a word of more than 3 characters
C12_Witness ==
    /\ fb_pc = "done"
    /\ MatchingSegments = <<>>
    /\ CharLen(fb_context) > 200
    /\ \E i \in 1..Len(fb_context) : fb_context[i] = Data
    /\ fb_question = <<The, Dot>>
    /\ CharLen(fb_response) = 31 + 200 + 3

\* C13 as stated: with m >= 1 matching segments the answer is the first
\* min(2, m) matching segments, as they stand in the context, joined by ". "
\* and ended by ".".
C13_FirstTwoSegmentsAsTheyStand ==
    (fb_pc = "done" /\ MatchingSegments # <<>>)
        => fb_response =
              JoinWith(SubSeq(MatchingSegments, 1, Min(2, Len(MatchingSegments))),
                       <<Dot, Blank>>) \o <<Dot>>

\* C13 amended: with m >= 1 matching segments the answer is the first
\* min(2, m) matching segments in context order, each without its leading and
\* trailing whitespace, joined by ". " and ended by "."; no other segment and
\* no third matching segment is in it.
C13_FirstTwoSegmentsStripped ==
    (fb_pc = "done" /\ MatchingSegments # <<>>)
        => LET m == Len(MatchingSegments)
               first == [i \in 1..Min(2, m) |-> Strip(MatchingSegments[i])]
           IN  fb_response = JoinWith(first, <<Dot, Blank>>) \o <<Dot>>

\* three matching segments, the second with a blank in front
C13_Witness ==
    /\ fb_pc = "done"
    /\ Len(MatchingSegments) = 3
    /\ MatchingSegments[2] # Strip(MatchingSegments[2])
    /\ Len(fb_response) = 5

-----------------------------------------------------------------------------
(* Properties of the server                                                *)

-----------------------------------------------------------------------------
(* Properties of comprehensive_evaluation                                  *)

\* C18: overall_score is 0.5 * relevance_score + 0.2 * coverage
\* + 0.2 * context_usage + 0.1 * length_score, length_score is 1.0 for an
\* answer of 10 to 200 words, both included, and 0.5 otherwise, and
\* recommendation is "Good" exactly when overall_score >= 0.7 and "Needs
\* improvement" otherwise.
C18_WeightedSumAndLabel ==
    ev_pc = "done"
        => LET r == ev_result.retrieval_evaluation
               a == ev_result.answer_evaluation
               n == WordCount(ev_answer)
               \* the sum over the common denominator 10 * the four denominators
               den == r.relevance_score.den * r.coverage.den
                          * a.context_usage.den * a.length_score.den
               num == 5 * r.relevance_score.num * (den \div r.relevance_score.den)
                      + 2 * r.coverage.num * (den \div r.coverage.den)
                      + 2 * a.context_usage.num * (den \div a.context_usage.den)
                      + 1 * a.length_score.num * (den \div a.length_score.den)
           IN  /\ ev_result.overall_score = Rat(num, 10 * den)
               /\ a.length_score = (IF n \in 10..200 THEN Rat(1, 1) ELSE Rat(1, 2))
               /\ ev_result.recommendation =
                     (IF 10 * num >= 7 * 10 * den THEN "Good" ELSE "Needs improvement")

\* an answer of exactly 200 words that is labelled "Good"
C18_Witness ==
    /\ ev_pc = "done"
    /\ WordCount(ev_answer) = 200
    /\ ev_result.answer_evaluation.length_score = Rat(1, 1)
    /\ ev_result.recommendation = "Good"

\* C19: for a non-empty query q, retrieved_texts = [q] and answer = q give an
\* overall_score of at least 0.7 and the recommendation "Good", whatever the
\* words of q.
C19_SelfEvaluationIsGood ==
    (ev_pc = "done" /\ ev_query # <<>> /\ ev_retrieved = <<ev_query>>
        /\ ev_answer = ev_query)
        => /\ RGeq(ev_result.overall_score, Rat(7, 10))
           /\ ev_result.recommendation = "Good"

-----------------------------------------------------------------------------
(* Properties of process_documents                                         *)

\* C21: when vector_db_loaded is true and force_rebuild is false,
\* process_documents changes nothing: no ingestion, chunking, embedding or
\* set-up of the store runs, nothing is raised, the stored collection and its
\* records are the same afterwards, and vector_db_loaded stays true.
C21_LoadedUnforcedChangesNothing ==
    [][(op'.name = "process_documents" /\ vector_db_loaded /\ ~op'.force_rebuild)
          => /\ stages' = {}
             /\ ~setup_args'.called
             /\ ~raised'
             /\ store' = store
             /\ collection' = collection
             /\ vector_db_loaded']_vars

\* a skipped process_documents on a pipeline whose collection holds records
C21_Witness ==
    /\ op.name = "process_documents"
    /\ ~op.force_rebuild
    /\ vector_db_loaded
    /\ stages = {}
    /\ store.exists
    /\ store.records # <<>>

\* C22: when ingestion yields no document text (directory missing, no PDF
\* file, or every PDF unreadable or blank), process_documents returns without
\* raising, leaves the store and the collection handle as they were and leaves
\* vector_db_loaded unchanged, with force_rebuild true as with false.
C22_NoTextLeavesAllAsItWas ==
    [][op'.name = "process_documents"
          => \A dir \in DataDirs :
                (ingest_pdfs(dir) = <<>> /\ Process(op'.force_rebuild, dir, <<>>))
                    => /\ ~raised'
                       /\ ~setup_args'.called
                       /\ store' = store
                       /\ collection' = collection
                       /\ vector_db_loaded' = vector_db_loaded]_vars

\* a forced rebuild of a loaded pipeline that found no text and stopped after
\* the ingestion, the records still in the store
C22_Witness ==
    /\ op.name = "process_documents"
    /\ op.force_rebuild
    /\ stages = {"ingest_pdfs"}
    /\ vector_db_loaded
    /\ ~raised
    /\ store.records # <<>>

\* C23: ask on a pipeline whose vector_db_loaded is false returns the record
\* "Error: Vector database not initialized." with no source, confidence 0.0 and
\* num_sources 0, without embedding the question, querying the store or
\* calling an answerer; a process_documents call that has run setup_vector_db
\* and returned leaves the flag true, the flag is never reset, and no ask on a
\* pipeline whose flag is true returns that record.
C23_NotInitializedUntilStored ==
    /\ [](/\ (op.name = "ask" /\ ~vector_db_loaded)
                => /\ answer = NotInitialized
                   /\ stages = {}
                   /\ results = NoResults
                   /\ retrieved = <<>>
                   /\ llm_calls = 0
                   /\ fallback_calls = 0
          /\ (op.name = "process_documents" /\ setup_args.called /\ ~raised)
                => vector_db_loaded
          /\ (op.name = "ask" /\ vector_db_loaded) => answer # NotInitialized
          /\ (op.name = "ask" /\ built) => answer # NotInitialized)
    /\ [][vector_db_loaded => vector_db_loaded']_vars

\* an ask answered with the record on a pipeline that has stored nothing
C23_AskBeforeStored ==
    /\ op.name = "ask"
    /\ ~vector_db_loaded
    /\ ~built
    /\ answer = NotInitialized
    /\ stages = {}
    /\ NotInitialized.answer = "Error: Vector database not initialized."
    /\ NotInitialized.sources = <<>>
    /\ NotInitialized.num_sources = 0
    /\ NotInitialized.confidence.sum = 0

\* an ask on a pipeline whose process_documents has stored a collection
C23_Witness ==
    /\ op.name = "ask"
    /\ built
    /\ vector_db_loaded
    /\ stages # {}
    /\ answer # NotInitialized

-----------------------------------------------------------------------------
(* Properties of summarize_chunks                                          *)

\* C24: for every list of chunks and every max_length, the summary returned
\* by summarize_chunks has at most max_length characters.
C24_SummaryWithinMaxLength ==
    sm_pc = "done" => CharLen(sm_summary) <= sm_max_length

-----------------------------------------------------------------------------
(* Properties of clean_text                                                *)

\* C25: the result of clean_text has no two consecutive whitespace characters
\* and clean_text applied to it gives it back, also where a removed special
\* character stood between two blanks.
C25_CleanTextIdempotent ==
    pc # "start"
        => /\ \A i \in 1..Len(text) :
                 text[i].sep.ws1 + text[i].sep.spec + text[i].sep.ws2 <= 1
           /\ clean_text(text) = text

-----------------------------------------------------------------------------
(* Termination and order of chunk_text                                     *)

\* an upper bound of the steps chunk_text has still to take: per sentence not
\* yet looked at its words and two more, per word of the sentence in the word
\* loop one
StepsLeft ==
    LET perSentence == Len(text) + 2
    IN  CASE pc = "start" -> 3 + Len(raw) * (Len(raw) + 2)
          [] pc = "sentences" -> 2 + (Len(sentences) - si + 1) * perSentence
          [] pc = "words" ->
                3 + (Len(sentences) - si) * perSentence + (Len(words) - wi + 1)
          [] pc = "filter" -> 1
          [] OTHER -> 0

\* C26: chunk_text ends after a single pass for every text and every integer
\* chunk_size and chunk_overlap (negative, zero, chunk_overlap >= chunk_size):
\* every step lowers a non-negative bound of the steps left, the sentence loop
\* and the word loop each go on by one element per iteration and never back,
\* and at most as many chunks are emitted as there are sentences and words.
C26_SinglePassTerminates ==
    /\ [](/\ StepsLeft >= 0
          /\ si \in 1..(Len(sentences) + 1)
          /\ wi \in 1..(Len(words) + 1)
          /\ Len(chunks) <= Len(sentences) + Len(text))
    /\ [][/\ StepsLeft' < StepsLeft
          /\ si' \in {si, si + 1}
          /\ (pc = "words" /\ pc' = "words") => wi' = wi + 1
          /\ pc = "sentences" => (si' = si + 1 \/ pc' # "sentences")]_vars

\* a call with chunk_overlap above chunk_size, or a negative one, that went
\* through the word loop, emitted a chunk there and has returned
C26_Witness ==
    /\ pc = "done"
    /\ chunk_overlap >= chunk_size \/ chunk_overlap < 0
    /\ words # <<>>
    /\ Len(chunks) >= 2
    /\ Len(sentences) >= 2

\* the words chunk i holds that no chunk before it holds
FirstAppearing(cs, i) ==
    Positions(cs[i]) \ UNION {Positions(cs[j]) : j \in 1..(i - 1)}

\* the words first appear in the order of the document: a word that first
\* appears in a later chunk does not stand before one that first appears in an
\* earlier chunk, and inside a chunk the words stand in the order of the text
InDocumentOrder(cs) ==
    /\ \A i \in 1..Len(cs) : \A j \in (i + 1)..Len(cs) :
          \A p \in FirstAppearing(cs, i) : \A q \in FirstAppearing(cs, j) : p <= q
    /\ \A i \in 1..Len(cs) : \A k \in 1..(Len(cs[i]) - 1) :
          cs[i][k].pos < cs[i][k + 1].pos

\* the words of the text that are in no chunk of cs
Missing(cs) == (1..Len(text)) \ UNION {Positions(cs[i]) : i \in 1..Len(cs)}

\* C27: before the final filter chunk_text loses no content and keeps the order
\* of the document: every word of the cleaned text is in an assembled chunk,
\* the words first appear in non-decreasing position across successive chunks,
\* and a word missing from the returned chunks is a word of assembled chunks of
\* 10 tokens or fewer only.
C27_NoLossBeforeFilterInOrder ==
    /\ InDocumentOrder(chunks)
    /\ pc \in {"filter", "done"} => Missing(chunks) = {}
    /\ pc = "done"
          => /\ returned = SelectSeq(chunks, KeepChunk)
             /\ \A p \in Missing(returned) :
                   \A i \in 1..Len(chunks) :
                       p \in Positions(chunks[i]) => count_tokens(chunks[i]) <= 10

\* three chunks assembled, the second holding words carried over from the
\* first, and a word of the text lost to the filter
C27_Witness ==
    /\ pc = "done"
    /\ Len(chunks) = 3
    /\ Positions(chunks[1]) \cap Positions(chunks[2]) # {}
    /\ Missing(chunks) = {}
    /\ Missing(returned) # {}

-----------------------------------------------------------------------------
(* Properties of the records of ask and of vector_db_loaded                *)

\* the sum of the scores of the pairs of a list
RECURSIVE ScoreSum(_)
ScoreSum(pairs) == IF pairs = <<>> THEN 0 ELSE pairs[Len(pairs)][2] + ScoreSum(SubSeq(pairs, 1, Len(pairs) - 1))

\* C28: in every record ask returns, confidence is the arithmetic mean of the
\* similarity scores of all retrieved chunks, not of the up to three returned
\* sources only; so either num_sources = 0 and confidence = 0.0, or
\* num_sources >= 1 and confidence >= SIMILARITY_THRESHOLD.
C28_ConfidenceIsMeanOfAllRetrieved ==
    op.name = "ask"
        => /\ answer.num_sources = Len(retrieved)
           /\ retrieved = <<>>
                 => answer.confidence.sum = 0 /\ answer.num_sources = 0
           /\ retrieved # <<>>
                 => /\ answer.num_sources >= 1
                    /\ answer.confidence.n = Len(retrieved)
                    /\ answer.confidence.sum = ScoreSum(retrieved)
                    /\ answer.confidence.sum >= SIMILARITY_THRESHOLD * answer.confidence.n

\* four chunks retrieved with unequal scores, three of them returned as sources
C28_Witness ==
    /\ op.name = "ask"
    /\ Len(retrieved) = 4
    /\ Len(answer.sources) = 3
    /\ \E i, j \in 1..4 : retrieved[i][2] # retrieved[j][2]
    /\ answer.confidence.sum * 3 # (retrieved[1][2] + retrieved[2][2] + retrieved[3][2]) * 4

\* C29: whenever vector_db_loaded is true, the flag GET /health reports, the
\* store holds a collection with at least one record, after any sequence of
\* constructions, process_documents calls and ask calls.
C29_LoadedMeansRecords ==
    vector_db_loaded => (store.exists /\ store.records # <<>>)

\* a forced process_documents on a loaded pipeline whose documents gave no
\* chunk: the collection is left empty and the flag true
C29_EmptiedByRebuild ==
    /\ op.name = "process_documents"
    /\ op.force_rebuild
    /\ raised
    /\ vector_db_loaded
    /\ store.exists
    /\ store.records = <<>>

-----------------------------------------------------------------------------
(* Properties of embeddings.py                                             *)

\* C30: the embedding model is loaded at most once per process: once a call of
\* load_embedding_model has returned a model, every later call, from
\* create_embeddings or create_query_embedding too, returns that same model and
\* loads nothing, also when it is given another model_name.
C30_ModelLoadedOnce ==
    /\ [](/\ em_loads <= 1
          /\ (em_model = NoModel) <=> (em_loads = 0)
          /\ em_first = em_model
          /\ (em_op.name # "none" /\ ~em_op.raised /\ ~em_op.no_texts)
                => (em_out = em_first /\ em_out # NoModel)
          /\ em_op.raised => em_model = NoModel)
    /\ [][em_model # NoModel
             => (em_model' = em_model /\ em_loads' = em_loads /\ ~em_op'.raised)]_vars

\* the configured model loaded by the first call and returned by a later call
\* that asks for another model
C30_Witness ==
    /\ em_calls >= 2
    /\ em_loads = 1
    /\ em_first.name = EMBEDDING_MODEL
    /\ em_op.name = "create_query_embedding"
    /\ em_op.model_name = "another-model"
    /\ em_out = em_first

====
